---- MODULE Spec2Model ----
(***************************************************************************)
(* A model of foomo/contentserver-mcp:                                     *)
(*   - service.GetDocument (service/service.go), the document aggregator;  *)
(*   - the per-operation streaming handlers HandleScrapeSSE and            *)
(*     HandleGetDocumentSSE (mcp/sse.go);                                   *)
(*   - the SSE dispatcher MCPSSEServer (mcp/sse.go): client registry,      *)
(*     broadcast queue, fan-out loop.                                       *)
(* Strings that the code inspects character by character (URIs, URLs) are  *)
(* sequences of one-character strings; ids and mime types are strings.     *)
(***************************************************************************)
EXTENDS Integers, Sequences, FiniteSets, TLC

VARIABLES
    \* ---- service.GetDocument: one call
    pc,          \* position of the call in GetDocument
    content,     \* the value returned by GetContent (None before)
    i,           \* loop index of the running loop (1-based)
    breadcrump,  \* the local slice breadcrump
    summary,     \* the local summary of the main document (None before)
    markdown,    \* the local markdown
    doc,         \* the local *vo.Document (None before line 151)
    isPrevious,  \* the local isPrevious
    parentNode,  \* nodes[parent.ID] of the sibling GetNodes call (None before)
    contentNode, \* nodes[content.Item.ID] of the child GetNodes call
    ret,         \* what GetDocument returned: [doc, err]
    scrapes,     \* every scrape.Scrape call issued, in order
    failed,      \* the external step the environment made fail ("" if none)
    r,           \* the *http.Request GetDocument is called with (None: nil)
    cancelled,   \* the caller has cancelled the request's context
    fetches,     \* the downstream calls GetDocument has made, with their errors
    \* ---- HandleScrapeSSE / HandleGetDocumentSSE: one entry per request
    opKind,      \* "scrape" or "document" ("" before the request arrives)
    hPc,         \* position of the request's handler
    gPc,         \* position of the goroutine the handler starts
    emitted,     \* the events the operation wrote, in order
    opStream,    \* the events that reached the requesting connection
    calls,       \* downstream calls issued (scrape.Scrape, service.GetDocument)
    crashed,     \* a goroutine panicked: the process is gone
    disconnected, \* the operations whose requesting connection has gone away
    opRequest,   \* the decoded body of each operation's request (None before)
    opError,     \* the http.Error each operation's handler answered with (None: none)
    \* ---- MCPSSEServer and its connections
    clients,      \* the keys of s.clients
    done,         \* the client ids whose Done channel is closed
    broadcast,    \* the buffered channel s.broadcast
    nextClientID, \* s.nextClientID
    wlock,        \* the connection whose addClient holds clientsMutex.Lock (0: none)
    rlock,        \* broadcastLoop holds clientsMutex.RLock
    loopPc,       \* position of broadcastLoop
    loopEvent,    \* the event broadcastLoop received (None when idle)
    visited,      \* the client ids the running `range s.clients` has produced
    loopTarget,   \* the client id broadcastLoop is about to remove (0: none)
    connPc,       \* position of each connection's HandleSSE
    kaPc,         \* position of each connection's keepalive goroutine
    clientID,     \* the client id addClient gave each connection (0: none)
    ctxDone,      \* the connections whose request context is done
    stuck,        \* the connections whose peer has stopped reading: a write blocks
    fresh,        \* the client ids registered while the running range was suspended
    clientStream, \* the events written to each connection
    ticks,        \* the ticker ticks each connection has consumed
    warnings,     \* the ids of the events logged as dropped
    offered,      \* the number of broadcastEvent calls so far
    dequeued,     \* the number of events broadcastLoop has received so far
    panicked,     \* close of a closed channel: the process panicked
    noopRemoves,  \* the client ids removeClient was called for and did not find
    \* ---- the keepalive timers, in seconds
    config,       \* the SSEServerConfig NewMCPSSEServer works with (None: no server yet)
    now,          \* the time since the server was constructed
    ticker,       \* each connection's time.Ticker (None: not created)
    keepaliveAt,  \* the times at which each connection's ticker has fired
    \* ---- the MCP tool handlers of handler.go
    toolKind,     \* the tool each call is for ("": not called yet)
    toolArgs,     \* the typed arguments of each call (None before)
    toolPc,       \* each call's position in its handler
    toolRet,      \* what each handler returned: (result, err) (None before)
    toolCalls,    \* the number of downstream calls each handler has made
    toolFailed,   \* the step of each handler that failed ("": none)
    \* ---- the ids of the events, sse.go
    clock,        \* time.Now().UnixNano(), the wall clock in nanoseconds
    idPc,         \* the next event of each connection and of each operation
    eventIDs,     \* the ids of the events each of them has built, in order
    \* ---- scrape/htmlutils.go
    htmlDoc,      \* the parsed document (None before html.Parse)
    selector,     \* the selector extractNodeBySelector was called with
    selected      \* what extractNodeBySelector returned: (node, err) (None before)

docVars == <<pc, content, i, breadcrump, summary, markdown, doc, isPrevious,
             parentNode, contentNode, ret, scrapes, failed, r, cancelled,
             fetches>>

streamVars == <<opKind, hPc, gPc, emitted, opStream, calls, crashed, disconnected,
               opRequest, opError>>

sseVars == <<clients, done, broadcast, nextClientID, wlock, rlock, loopPc,
             loopEvent, visited, loopTarget, connPc, kaPc, clientID, ctxDone,
             stuck, fresh, clientStream, ticks, warnings, offered, dequeued, panicked,
             noopRemoves>>

timerVars == <<config, now, ticker, keepaliveAt>>

toolVars == <<toolKind, toolArgs, toolPc, toolRet, toolCalls, toolFailed>>

idVars == <<clock, idPc, eventIDs>>

scrapeVars == <<htmlDoc, selector, selected>>

vars == <<docVars, streamVars, sseVars, timerVars, toolVars, idVars, scrapeVars>>

(***************************************************************************)
(* Bounds of the model.                                                    *)
(***************************************************************************)
MaxPath == 2
MaxIndex == 4
MaxChildren == 2
MaxOps == 2
MaxTools == 1
MaxConns == 2
MaxEvents == 3
MaxTicks == 1
\* config.BufferSize, the capacity of s.broadcast
BufferSize == 1
TimeStep == 15
MaxTime == 90
MaxClock == 2
MaxNodes == 4

(***************************************************************************)
(* Go values.                                                              *)
(***************************************************************************)
None == <<>>
Some(x) == <<x>>
Get(o) == o[1]

Range(s) == {s[k] : k \in 1..Len(s)}
SeqsUpTo(S, n) == UNION {[1..k -> S] : k \in 0..n}
InjSeqs(S, n) ==
    {s \in SeqsUpTo(S, n) : \A a, b \in 1..Len(s) : a # b => s[a] # s[b]}

\* strings.HasPrefix
HasPrefix(s, p) == Len(s) >= Len(p) /\ SubSeq(s, 1, Len(p)) = p

\* the zero value of vo.DocumentSummary
ZeroSummary == [MimeType |-> "", ID |-> "", URL |-> <<>>, Title |-> <<>>]

(***************************************************************************)
(* The site: SiteSettings and the remote content tree the content server   *)
(* answers from.  CurID is the node the requested path resolves to.        *)
(***************************************************************************)
BaseURL == <<"h">>
RequestPath == <<"/", "p">>
CurID == "cur"
MimeTypes == {"text/html", "application/pdf"}
\* the keys of service.contentScrapers
ContentScraperTypes == {"application/pdf"}

AncestorIDs == {"home", "recipes", "a-empty", "a-rel"}
SiblingIDs == {"french", "spanish", "german", "s-rel"}
ChildIDs == {"pasta", "c-empty"}

NodeURI ==
    ("cur" :> <<"/", "c">>) @@
    ("home" :> <<"/">>) @@ ("recipes" :> <<"/", "r">>) @@
    ("a-empty" :> <<>>) @@ ("a-rel" :> <<"x">>) @@
    ("french" :> <<"/", "f">>) @@ ("spanish" :> <<"/", "s">>) @@
    ("german" :> <<"/", "g">>) @@
    ("s-rel" :> <<"y">>) @@
    ("pasta" :> <<"/", "c", "/", "a">>) @@ ("c-empty" :> <<>>)

\* a content.Item of the tree
Item(id) == [ID |-> id, URI |-> NodeURI[id], MimeType |-> "text/html"]

\* content.Path values: ancestors, nearest first
Paths == {[k \in 1..Len(s) |-> Item(s[k])] : s \in InjSeqs(AncestorIDs, MaxPath)}
\* the ordered child index of the parent (may or may not hold CurID)
ParentIndexes == InjSeqs(SiblingIDs \cup {CurID}, MaxIndex)
ChildIndexes == InjSeqs(ChildIDs, MaxChildren)

(***************************************************************************)
(* scrape.Scrape as seen by GetDocument: the summary of a successful call. *)
(* Identity fields are whatever the page gave; the title names the page.   *)
(***************************************************************************)
ScrapeSummary(url) ==
    [MimeType |-> "scraped", ID |-> "scraped", URL |-> <<"s">>, Title |-> url]
ScrapeMarkdown(url) == <<"scraped">> \o url
HookMarkdown(c) == <<"hook">>

(***************************************************************************)
(* service.go                                                              *)
(***************************************************************************)
isValidURIPrefixOnly(uri) == uri # <<>>
\* isValidURI: uri != "" && strings.HasPrefix(uri, "/")
isValidURI(uri) == uri # <<>> /\ HasPrefix(uri, <<"/">>)

loadItemDataKeepURL(d, item) ==
    [d EXCEPT !.MimeType = item.MimeType, !.ID = item.ID]
\* loadItemData
loadItemData(d, item) ==
    [d EXCEPT !.MimeType = item.MimeType, !.ID = item.ID,
              !.URL = BaseURL \o item.URI]

BreadcrumbSlotForward(n, k) == k
\* breadcrump[len(content.Path)-i-1], for the 1-based k = i+1
BreadcrumbSlot(n, k) == n - k + 1

ReturnPartial(err) == [doc |-> doc, err |-> err]
\* return nil, err
ReturnError(err) == [doc |-> None, err |-> err]

FailAndGoOn(step, err) ==
    /\ pc' = pc
    /\ ret' = ReturnError(err)
    /\ failed' = step
\* the call ends with an error after the environment failed step `step`
Fail(step, err) ==
    /\ pc' = "done"
    /\ ret' = ReturnError(err)
    /\ failed' = step

ctxBackground == "context.Background()"
\* lines 92-97: ctx = r.Context() if r != nil, else context.Background()
ctx == IF r # None THEN "r.Context()" ELSE "context.Background()"
\* ctx.Done() is closed: a call made with ctx cannot succeed any more
CtxDone == ctx = "r.Context()" /\ cancelled

\* a downstream call has returned err ("": nil); late: the caller had
\* cancelled before the call
Fetch(call, err) ==
    fetches' = Append(fetches, [call |-> call, err |-> err, late |-> cancelled])

ScrapeCall(kind, uri) == [kind |-> kind, url |-> BaseURL \o uri, uri |-> uri]

nonDocVars == <<streamVars, sseVars, timerVars, toolVars, idVars,
    scrapeVars>>

InitDoc ==
    /\ pc = "resolve"
    /\ content = None
    /\ i = 1
    /\ breadcrump = <<>>
    /\ summary = None
    /\ markdown = <<>>
    /\ doc = None
    /\ isPrevious = TRUE
    /\ parentNode = None
    /\ contentNode = None
    /\ ret = [doc |-> None, err |-> ""]
    /\ scrapes = <<>>
    /\ failed = ""
    /\ r = Some("request")
    /\ cancelled = FALSE
    /\ fetches = <<>>

\* lines 100-113: GetContent, then breadcrump := make(..., len(content.Path))
GetContent ==
    /\ pc = "resolve"
    /\ \/ /\ Fail("resolve", "get content failed")
          /\ Fetch("GetContent", "get content failed")
          /\ UNCHANGED <<content, i, breadcrump>>
       \/ \E p \in Paths, m \in MimeTypes :
            /\ ~CtxDone
            /\ Fetch("GetContent", "")
            /\ content' = Some([Item |-> Item(CurID), MimeType |-> m, Path |-> p])
            /\ breadcrump' = [k \in 1..Len(p) |-> ZeroSummary]
            /\ i' = 1
            /\ pc' = "breadcrumb"
            /\ UNCHANGED <<ret, failed>>
    /\ UNCHANGED <<summary, markdown, doc, isPrevious, parentNode, contentNode,
                   scrapes>>
    /\ UNCHANGED <<r, cancelled>>
    /\ UNCHANGED nonDocVars

\* lines 115-127: one iteration of the breadcrumb loop
BreadcrumbItem ==
    /\ pc = "breadcrumb"
    /\ i <= Len(Get(content).Path)
    /\ LET path == Get(content).Path
           item == path[i]
       IN IF ~isValidURI(item.URI)
          THEN /\ i' = i + 1
               /\ UNCHANGED <<pc, breadcrump, ret, scrapes, failed, fetches>>
          ELSE /\ scrapes' = Append(scrapes, ScrapeCall("ancestor", item.URI))
               /\ \/ /\ Fail("ancestor scrape", "scrape failed")
                     /\ Fetch("Scrape", "scrape failed")
                     /\ UNCHANGED <<i, breadcrump>>
                  \/ /\ ~CtxDone
                     /\ Fetch("Scrape", "")
                     /\ breadcrump' =
                          [breadcrump EXCEPT ![BreadcrumbSlot(Len(path), i)] =
                              ScrapeSummary(BaseURL \o item.URI)]
                     /\ i' = i + 1
                     /\ UNCHANGED <<pc, ret, failed>>
    /\ UNCHANGED <<content, summary, markdown, doc, isPrevious, parentNode,
                   contentNode>>
    /\ UNCHANGED <<r, cancelled>>
    /\ UNCHANGED nonDocVars

\* lines 129-135: the loop is over; scrape the main document
ScrapeMain ==
    /\ pc = "breadcrumb"
    /\ i > Len(Get(content).Path)
    /\ scrapes' = Append(scrapes, ScrapeCall("self", RequestPath))
    /\ \/ /\ Fail("self scrape", "scrape failed")
          /\ Fetch("Scrape", "scrape failed")
          /\ UNCHANGED <<summary, markdown>>
       \/ /\ ~CtxDone
          /\ Fetch("Scrape", "")
          /\ summary' = Some(ScrapeSummary(BaseURL \o RequestPath))
          /\ markdown' = ScrapeMarkdown(BaseURL \o RequestPath)
          /\ pc' = "hook"
          /\ UNCHANGED <<ret, failed>>
    /\ UNCHANGED <<content, i, breadcrump, doc, isPrevious, parentNode,
                   contentNode>>
    /\ UNCHANGED <<r, cancelled>>
    /\ UNCHANGED nonDocVars

NewDocumentScrapedBody(md) ==
    [DocumentSummary |-> loadItemData(Get(summary), Get(content).Item),
     Breadcrump |-> breadcrump,
     Markdown |-> ScrapeMarkdown(BaseURL \o RequestPath),
     PrevSiblings |-> <<>>,
     NextSiblings |-> <<>>,
     Children |-> <<>>]
\* lines 150-155: loadItemData on the own summary, then the Document
NewDocument(md) ==
    [DocumentSummary |-> loadItemData(Get(summary), Get(content).Item),
     Breadcrump |-> breadcrump,
     Markdown |-> md,
     PrevSiblings |-> <<>>,
     NextSiblings |-> <<>>,
     Children |-> <<>>]

\* lines 137-157: the content scraper of the mime type, if any, then the doc
ContentScraperHook ==
    /\ pc = "hook"
    /\ IF Get(content).MimeType \in ContentScraperTypes
       THEN \/ /\ Fail("hook", "content scraper failed")
               /\ Fetch("contentScraper", "content scraper failed")
               /\ UNCHANGED <<markdown, doc>>
            \/ /\ ~CtxDone
               /\ Fetch("contentScraper", "")
               /\ markdown' = HookMarkdown(Get(content))
               /\ doc' = Some(NewDocument(markdown'))
               /\ pc' = "parent"
               /\ UNCHANGED <<ret, failed>>
       ELSE /\ doc' = Some(NewDocument(markdown))
            /\ pc' = "parent"
            /\ UNCHANGED <<markdown, ret, failed, fetches>>
    /\ UNCHANGED <<content, i, breadcrump, summary, isPrevious, parentNode,
                   contentNode, scrapes>>
    /\ UNCHANGED <<r, cancelled>>
    /\ UNCHANGED nonDocVars

\* the answers GetNodes can give for one node id: the entry of the map
\* (the ordered index, and the ids its Nodes map holds: all, or all but one;
\* whether the map holds the current node's own id is never looked at)
NodeAnswers(indexes) ==
    UNION {{[Index |-> idx, Nodes |-> Range(idx) \ miss] :
                miss \in {{}} \cup {{x} : x \in Range(idx) \ {CurID}}} : idx \in indexes}

\* lines 158-176: the parent's child index, when the node has a parent
GetParentNodes ==
    /\ pc = "parent"
    /\ Len(Get(content).Path) > 0
    /\ \/ /\ Fail("parent index", "get nodes failed")
          /\ Fetch("GetNodes", "get nodes failed")
          /\ UNCHANGED <<parentNode, i>>
       \/ /\ ~CtxDone
          /\ Fetch("GetNodes", "")
          /\ Fail("parent lookup", "parent node not found")
          /\ UNCHANGED <<parentNode, i>>
       \/ \E n \in NodeAnswers(ParentIndexes) :
            /\ ~CtxDone
            /\ Fetch("GetNodes", "")
            /\ parentNode' = Some(n)
            /\ i' = 1
            /\ pc' = "siblings"
            /\ UNCHANGED <<ret, failed>>
    /\ UNCHANGED <<content, breadcrump, summary, markdown, doc, isPrevious,
                   contentNode, scrapes>>
    /\ UNCHANGED <<r, cancelled>>
    /\ UNCHANGED nonDocVars

AppendSiblingAlwaysNext(d, prev, s) ==
    [d EXCEPT !.NextSiblings = Append(@, s)]
AppendSiblingAlwaysPrevious(d, prev, s) ==
    [d EXCEPT !.PrevSiblings = Append(@, s)]
\* lines 202-206
AppendSibling(d, prev, s) ==
    IF prev THEN [d EXCEPT !.PrevSiblings = Append(@, s)]
            ELSE [d EXCEPT !.NextSiblings = Append(@, s)]

\* lines 178-207: one iteration of the sibling loop
SiblingItem ==
    /\ pc = "siblings"
    /\ i <= Len(Get(parentNode).Index)
    /\ LET id == Get(parentNode).Index[i]
           siblingNode == [Item |-> Item(id)]
       IN IF id = Get(content).Item.ID
          THEN /\ isPrevious' = FALSE
               /\ i' = i + 1
               /\ UNCHANGED <<pc, doc, ret, scrapes, failed, fetches>>
          ELSE IF id \notin Get(parentNode).Nodes
          THEN /\ Fail("sibling lookup", "sibling node not found")
               /\ UNCHANGED <<i, doc, isPrevious, scrapes, fetches>>
          ELSE IF ~isValidURI(siblingNode.Item.URI)
          THEN /\ i' = i + 1
               /\ UNCHANGED <<pc, doc, isPrevious, ret, scrapes, failed, fetches>>
          ELSE /\ scrapes' = Append(scrapes, ScrapeCall("sibling", siblingNode.Item.URI))
               /\ \/ /\ Fail("sibling scrape", "scrape failed")
                     /\ Fetch("Scrape", "scrape failed")
                     /\ UNCHANGED <<i, doc, isPrevious>>
                  \/ /\ ~CtxDone
                     /\ Fetch("Scrape", "")
                     /\ doc' = Some(AppendSibling(Get(doc), isPrevious,
                                  loadItemData(ScrapeSummary(BaseURL \o siblingNode.Item.URI),
                                               siblingNode.Item)))
                     /\ i' = i + 1
                     /\ UNCHANGED <<pc, isPrevious, ret, failed>>
    /\ UNCHANGED <<content, breadcrump, summary, markdown, parentNode,
                   contentNode>>
    /\ UNCHANGED <<r, cancelled>>
    /\ UNCHANGED nonDocVars

\* lines 211-229: the node's own child index, after the sibling block
GetChildNodes ==
    /\ \/ pc = "parent" /\ Len(Get(content).Path) = 0
       \/ pc = "siblings" /\ i > Len(Get(parentNode).Index)
    /\ \/ /\ Fail("child index", "get nodes failed")
          /\ Fetch("GetNodes", "get nodes failed")
          /\ UNCHANGED <<contentNode, i>>
       \/ /\ ~CtxDone
          /\ Fetch("GetNodes", "")
          /\ Fail("child lookup", "content node not found")
          /\ UNCHANGED <<contentNode, i>>
       \/ \E n \in NodeAnswers(ChildIndexes) :
            /\ ~CtxDone
            /\ Fetch("GetNodes", "")
            /\ contentNode' = Some(n)
            /\ i' = 1
            /\ pc' = "children"
            /\ UNCHANGED <<ret, failed>>
    /\ UNCHANGED <<content, breadcrump, summary, markdown, doc, isPrevious,
                   parentNode, scrapes>>
    /\ UNCHANGED <<r, cancelled>>
    /\ UNCHANGED nonDocVars

AppendChildFirst(d, s) == [d EXCEPT !.Children = <<s>> \o @]
\* line 243: doc.Children = append(doc.Children, *childSummary)
AppendChild(d, s) == [d EXCEPT !.Children = Append(@, s)]

\* lines 230-244: one iteration of the children loop
ChildItem ==
    /\ pc = "children"
    /\ i <= Len(Get(contentNode).Index)
    /\ LET id == Get(contentNode).Index[i]
           childNode == [Item |-> Item(id)]
       IN IF id \notin Get(contentNode).Nodes
          THEN /\ Fail("child lookup", "child node not found")
               /\ UNCHANGED <<i, doc, scrapes, fetches>>
          ELSE /\ scrapes' = Append(scrapes, ScrapeCall("child", childNode.Item.URI))
               /\ \/ /\ Fail("child scrape", "scrape failed")
                     /\ Fetch("Scrape", "scrape failed")
                     /\ UNCHANGED <<i, doc>>
                  \/ /\ ~CtxDone
                     /\ Fetch("Scrape", "")
                     /\ doc' = Some(AppendChild(Get(doc),
                                  loadItemData(ScrapeSummary(BaseURL \o childNode.Item.URI),
                                               childNode.Item)))
                     /\ i' = i + 1
                     /\ UNCHANGED <<pc, ret, failed>>
    /\ UNCHANGED <<content, breadcrump, summary, markdown, isPrevious,
                   parentNode, contentNode>>
    /\ UNCHANGED <<r, cancelled>>
    /\ UNCHANGED nonDocVars

\* line 252: return doc, nil
ReturnDocument ==
    /\ pc = "children"
    /\ i > Len(Get(contentNode).Index)
    /\ pc' = "done"
    /\ ret' = [doc |-> doc, err |-> ""]
    /\ UNCHANGED <<content, i, breadcrump, summary, markdown, doc, isPrevious,
                   parentNode, contentNode, scrapes, failed, fetches>>
    /\ UNCHANGED <<r, cancelled>>
    /\ UNCHANGED nonDocVars

\* GetDocument is called with r == nil: nothing has happened yet
CallWithNilRequest ==
    /\ pc = "resolve"
    /\ r # None
    /\ ~cancelled
    /\ r' = None
    /\ UNCHANGED <<pc, content, i, breadcrump, summary, markdown, doc,
                   isPrevious, parentNode, contentNode, ret, scrapes, failed,
                   cancelled, fetches>>
    /\ UNCHANGED nonDocVars

\* the caller cancels the context of r while GetDocument runs
CancelRequest ==
    /\ pc # "done"
    /\ r # None
    /\ ~cancelled
    /\ cancelled' = TRUE
    /\ UNCHANGED <<pc, content, i, breadcrump, summary, markdown, doc,
                   isPrevious, parentNode, contentNode, ret, scrapes, failed,
                   r, fetches>>
    /\ UNCHANGED nonDocVars

NextDoc ==
    \/ GetContent
    \/ BreadcrumbItem
    \/ ScrapeMain
    \/ ContentScraperHook
    \/ GetParentNodes
    \/ SiblingItem
    \/ GetChildNodes
    \/ ChildItem
    \/ ReturnDocument
    \/ CancelRequest
    \/ CallWithNilRequest


(***************************************************************************)
(* mcp/sse.go: the streaming trigger endpoints.  A request is handled by   *)
(* its handler (validation, start event, `go func()`, return) and by the   *)
(* goroutine the handler starts (downstream call, then the events).  Both  *)
(* write to the request's http.ResponseWriter w.                           *)
(***************************************************************************)
Ops == 1..MaxOps
OpKinds == {"scrape", "document"}
EventName(kind, phase) == kind \o "_" \o phase

\* the values a request field takes: empty (or missing), or not
ReqURLs == {"", "u"}
ReqSelectors == {"", "s"}
ReqPaths == {"", "/p"}
\* the bodies of the requests to /sse/scrape and /sse/document; json: the
\* body decodes
SSERequests(kind) ==
    IF kind = "scrape"
    THEN [json : BOOLEAN, url : ReqURLs, selector : ReqSelectors]
    ELSE [service : BOOLEAN, json : BOOLEAN, path : ReqPaths]

\* HandleScrapeSSE, lines 248-256
ScrapeSSEError(req) ==
    IF ~req.json THEN Some("Invalid JSON")
    ELSE IF req.url = "" \/ req.selector = ""
    THEN Some("url and selector are required")
    ELSE None
\* HandleGetDocumentSSE, lines 332-349; service: the server has a service
DocumentSSEError(req) ==
    IF ~req.service THEN Some("Document service not available")
    ELSE IF ~req.json THEN Some("Invalid JSON")
    ELSE IF req.path = "" THEN Some("path is required")
    ELSE None
SSEError(kind, req) ==
    IF kind = "scrape" THEN ScrapeSSEError(req) ELSE DocumentSSEError(req)

nonStreamVars == <<docVars, sseVars, timerVars, toolVars, idVars,
    scrapeVars>>
nonServerVars == <<docVars, timerVars, toolVars, idVars,
    scrapeVars>>

InitStream ==
    /\ opKind = [o \in Ops |-> ""]
    /\ hPc = [o \in Ops |-> "idle"]
    /\ gPc = [o \in Ops |-> "none"]
    /\ emitted = [o \in Ops |-> <<>>]
    /\ opStream = [o \in Ops |-> <<>>]
    /\ calls = [o \in Ops |-> 0]
    /\ crashed = FALSE
    /\ disconnected = {}
    /\ opRequest = [o \in Ops |-> None]
    /\ opError = [o \in Ops |-> None]

\* fmt.Fprintf(w, ...) and flusher.Flush() while the handler runs
WriteInHandler(o, ev) ==
    /\ emitted' = [emitted EXCEPT ![o] = Append(@, ev)]
    /\ opStream' = [opStream EXCEPT ![o] = Append(@, ev)]
    /\ UNCHANGED sseVars

WriteInGoroutineBroadcast(o, ev) ==
    /\ emitted' = [emitted EXCEPT ![o] = Append(@, ev)]
    /\ broadcast' = Append(broadcast, [id |-> 1, marshals |-> TRUE])
    /\ UNCHANGED <<opStream, crashed>>
    /\ UNCHANGED <<clients, done, nextClientID, wlock, rlock, loopPc,
                   loopEvent, visited, loopTarget, connPc, kaPc, clientID,
                   ctxDone, stuck, fresh, clientStream, ticks, warnings,
                   offered, dequeued, panicked, noopRemoves>>
\* fmt.Fprintf(w, ...) and flusher.Flush() in the goroutine.  After the
\* handler returned, w is no longer valid (net/http): the bytes may still
\* reach the connection, may be lost, or Flush panics in the goroutine.
\* The events go to the request's own ResponseWriter; s.broadcast and
\* s.clients are not used.  A write to a connection that has gone away fails
\* and the failure is not looked at.
WriteInGoroutine(o, ev) ==
    /\ UNCHANGED sseVars
    /\ emitted' = [emitted EXCEPT ![o] = Append(@, ev)]
    /\ IF hPc[o] # "returned"
       THEN /\ opStream' = IF o \in disconnected THEN opStream
                           ELSE [opStream EXCEPT ![o] = Append(@, ev)]
            /\ UNCHANGED crashed
       ELSE \/ /\ o \notin disconnected
               /\ opStream' = [opStream EXCEPT ![o] = Append(@, ev)]
               /\ UNCHANGED crashed
            \/ UNCHANGED <<opStream, crashed>>
            \/ /\ crashed' = TRUE
               /\ UNCHANGED opStream

\* lines 243-256, 332-349: a request that fails validation (bad JSON, an
\* empty required field): http.Error, no event, nothing started
RejectRequest(o) ==
    /\ ~crashed
    /\ hPc[o] = "idle"
    /\ \E k \in OpKinds : \E req \in SSERequests(k) :
          /\ SSEError(k, req) # None
          /\ opKind' = [opKind EXCEPT ![o] = k]
          /\ opRequest' = [opRequest EXCEPT ![o] = Some(req)]
          /\ opError' = [opError EXCEPT ![o] = SSEError(k, req)]
    /\ hPc' = [hPc EXCEPT ![o] = "returned"]
    /\ UNCHANGED <<gPc, emitted, opStream, calls, crashed>>
    /\ UNCHANGED disconnected
    /\ UNCHANGED nonStreamVars

\* lines 243-284, 332-377: a valid request: headers, the start event, then
\* `go func()`
StartOperation(o) ==
    /\ ~crashed
    /\ hPc[o] = "idle"
    /\ \E k \in OpKinds : \E req \in SSERequests(k) :
          /\ SSEError(k, req) = None
          /\ opKind' = [opKind EXCEPT ![o] = k]
          /\ opRequest' = [opRequest EXCEPT ![o] = Some(req)]
          /\ WriteInHandler(o, EventName(k, "start"))
    /\ hPc' = [hPc EXCEPT ![o] = "spawned"]
    /\ gPc' = [gPc EXCEPT ![o] = "call"]
    /\ UNCHANGED <<calls, crashed, opError>>
    /\ UNCHANGED disconnected
    /\ UNCHANGED nonServerVars

\* lines 328, 435: the handler returns right after starting the goroutine
HandlerReturn(o) ==
    /\ ~crashed
    /\ hPc[o] = "spawned"
    /\ hPc' = [hPc EXCEPT ![o] = "returned"]
    /\ UNCHANGED <<opKind, gPc, emitted, opStream, calls, crashed>>
    /\ UNCHANGED <<disconnected, opRequest, opError>>
    /\ UNCHANGED nonStreamVars

\* lines 285-290, 378-398: the downstream call, which succeeds or fails
OperationCall(o) ==
    /\ ~crashed
    /\ gPc[o] = "call"
    /\ calls' = [calls EXCEPT ![o] = @ + 1]
    /\ \E ok \in BOOLEAN :
          gPc' = [gPc EXCEPT ![o] = IF ok THEN "result" ELSE "error"]
    /\ UNCHANGED <<opKind, hPc, emitted, opStream, crashed>>
    /\ UNCHANGED <<disconnected, opRequest, opError>>
    /\ UNCHANGED nonStreamVars

\* lines 300, 408: `return` after the error event
AfterError == "done"

\* lines 290-301, 398-409: the error event
EmitError(o) ==
    /\ ~crashed
    /\ gPc[o] = "error"
    /\ WriteInGoroutine(o, EventName(opKind[o], "error"))
    /\ gPc' = [gPc EXCEPT ![o] = AfterError]
    /\ UNCHANGED <<opKind, hPc, calls>>
    /\ UNCHANGED <<disconnected, opRequest, opError>>
    /\ UNCHANGED nonServerVars

\* lines 303-315, 411-422: the result event
EmitResult(o) ==
    /\ ~crashed
    /\ gPc[o] = "result"
    /\ WriteInGoroutine(o, EventName(opKind[o], "result"))
    /\ gPc' = [gPc EXCEPT ![o] = "complete"]
    /\ UNCHANGED <<opKind, hPc, calls>>
    /\ UNCHANGED <<disconnected, opRequest, opError>>
    /\ UNCHANGED nonServerVars

\* lines 317-326, 424-433: the completion event, then the goroutine ends
EmitComplete(o) ==
    /\ ~crashed
    /\ gPc[o] = "complete"
    /\ WriteInGoroutine(o, EventName(opKind[o], "complete"))
    /\ gPc' = [gPc EXCEPT ![o] = "done"]
    /\ UNCHANGED <<opKind, hPc, calls>>
    /\ UNCHANGED <<disconnected, opRequest, opError>>
    /\ UNCHANGED nonServerVars

\* the client of a started operation closes its connection
Disconnect(o) ==
    /\ ~crashed
    /\ hPc[o] \in {"spawned", "returned"}
    /\ gPc[o] # "none"
    /\ o \notin disconnected
    /\ disconnected' = disconnected \cup {o}
    /\ UNCHANGED <<opKind, hPc, gPc, emitted, opStream, calls, crashed,
                   opRequest, opError>>
    /\ UNCHANGED nonStreamVars

NextStream ==
    \/ \E o \in Ops : RejectRequest(o)
    \/ \E o \in Ops : StartOperation(o)
    \/ \E o \in Ops : HandlerReturn(o)
    \/ \E o \in Ops : OperationCall(o)
    \/ \E o \in Ops : EmitError(o)
    \/ \E o \in Ops : EmitResult(o)
    \/ \E o \in Ops : EmitComplete(o)
    \/ \E o \in Ops : Disconnect(o)

(***************************************************************************)
(* mcp/sse.go: MCPSSEServer.  Connections are the HandleSSE requests; each *)
(* is given a client id by addClient.  Events are the SSEEvent values      *)
(* handed to broadcastEvent; an event may hold data json.Marshal rejects.  *)
(***************************************************************************)
Conns == 1..MaxConns
EventIDs == 1..MaxEvents
Events == [id : EventIDs, marshals : BOOLEAN]

\* an event on a connection's stream; ok: the connection took the bytes
Written(type, id) == [type |-> type, id |-> id, ok |-> TRUE]
ConnOf(id) == CHOOSE c \in Conns : clientID[c] = id

nonSSEVars == <<docVars, streamVars, timerVars, toolVars, idVars,
    scrapeVars>>
connVars == <<connPc, kaPc, clientID, ctxDone, stuck, ticks>>
loopVars == <<loopPc, loopEvent, visited, loopTarget, fresh>>
queueVars == <<broadcast, warnings, offered, dequeued>>
closeVars == <<panicked, noopRemoves>>

InitSSE ==
    /\ clients = {}
    /\ done = {}
    /\ broadcast = <<>>
    /\ nextClientID = 0
    /\ wlock = 0
    /\ rlock = FALSE
    /\ loopPc = "recv"
    /\ loopEvent = None
    /\ visited = {}
    /\ loopTarget = 0
    /\ connPc = [c \in Conns |-> "idle"]
    /\ kaPc = [c \in Conns |-> "none"]
    /\ clientID = [c \in Conns |-> 0]
    /\ ctxDone = {}
    /\ stuck = {}
    /\ fresh = {}
    /\ clientStream = [c \in Conns |-> <<>>]
    /\ ticks = [c \in Conns |-> 0]
    /\ warnings = <<>>
    /\ offered = 0
    /\ dequeued = 0
    /\ panicked = FALSE
    /\ noopRemoves = {}

\* clientsMutex: Lock waits for the writer and the readers, RLock for the writer
CanLock == wlock = 0 /\ ~rlock
CanRLockAlways == TRUE
CanRLock == wlock = 0

\* sendEventToClient, lines 114-129: the only error is json.Marshal's; the
\* results of Fprintf and Flush are not looked at
sendEventToClientFails(marshals) == ~marshals
\* Fprintf and Flush return once the connection has taken the bytes: no write
\* deadline is set, so they wait for as long as the peer does not read
\* a write to a connection whose peer is gone fails
WriteFails(c) == c \in ctxDone
sendEventToClientWriteFirst(c, ev) ==
    /\ c \notin stuck
    /\ clientStream' = [clientStream EXCEPT
                           ![c] = <<[ev EXCEPT !.ok = ~WriteFails(c)]>> \o @]
sendEventToClientWrite(c, ev) ==
    /\ c \notin stuck
    /\ clientStream' = [clientStream EXCEPT
                           ![c] = Append(@, [ev EXCEPT !.ok = ~WriteFails(c)])]

\* close(client.Done), line 179: the close of a closed channel panics
closeDone(id) ==
    IF id \in done
    THEN /\ panicked' = TRUE
         /\ UNCHANGED done
    ELSE /\ done' = done \cup {id}
         /\ UNCHANGED panicked

removeClientKeepsEntry(id) ==
    /\ closeDone(id)
    /\ UNCHANGED <<clients, noopRemoves>>
removeClientUnchecked(id) ==
    /\ closeDone(id)
    /\ clients' = clients \ {id}
    /\ UNCHANGED noopRemoves
\* removeClient, lines 174-183, between its Lock and its Unlock
removeClient(id) ==
    IF id \in clients
    THEN /\ closeDone(id)
         /\ clients' = clients \ {id}
         /\ UNCHANGED noopRemoves
    ELSE /\ noopRemoves' = noopRemoves \cup {id}
         /\ UNCHANGED <<done, clients, panicked>>

broadcastEventBlocking(e) ==
    /\ Len(broadcast) < BufferSize
    /\ broadcast' = Append(broadcast, e)
    /\ UNCHANGED warnings
\* broadcastEvent, lines 186-192: select { case s.broadcast <- event: default: Warn }
broadcastEvent(e) ==
    IF Len(broadcast) < BufferSize
    THEN /\ broadcast' = Append(broadcast, e)
         /\ UNCHANGED warnings
    ELSE /\ warnings' = Append(warnings, e.id)
         /\ UNCHANGED broadcast

\* a producer calls broadcastEvent with its next event
BroadcastEvent(e) ==
    /\ offered < MaxEvents
    /\ e.id = offered + 1
    /\ offered' = offered + 1
    /\ broadcastEvent(e)
    /\ UNCHANGED <<clients, done, nextClientID, wlock, rlock, loopVars,
                   connVars, clientStream, dequeued>>
    /\ UNCHANGED closeVars
    /\ UNCHANGED nonSSEVars

\* line 89: for event := range s.broadcast
LoopReceive ==
    /\ loopPc = "recv"
    /\ broadcast # <<>>
    /\ loopEvent' = Some(Head(broadcast))
    /\ broadcast' = Tail(broadcast)
    /\ dequeued' = dequeued + 1
    /\ loopPc' = "rlock"
    /\ UNCHANGED <<clients, done, nextClientID, wlock, rlock, visited,
                   loopTarget, fresh, connVars, clientStream, warnings, offered>>
    /\ UNCHANGED closeVars
    /\ UNCHANGED nonSSEVars

\* lines 90-91 and 97, 105: RLock, to start or to go on with the iteration
LoopRLock ==
    /\ loopPc \in {"rlock", "relock"}
    /\ CanRLock
    /\ rlock' = TRUE
    /\ loopPc' = "range"
    /\ UNCHANGED <<clients, done, nextClientID, wlock, loopEvent, visited,
                   loopTarget, fresh, connVars, clientStream, queueVars>>
    /\ UNCHANGED closeVars
    /\ UNCHANGED nonSSEVars

RemainingWithRepeats == clients
\* the entries `range s.clients` has still to produce
Remaining == clients \ visited

RUnlockForgotten == rlock' = rlock
\* lines 95, 104: s.clientsMutex.RUnlock() before s.removeClient(clientID)
RUnlockBeforeRemove == rlock' = FALSE

\* lines 91-98: the next entry of `range s.clients`, and the select on its Done
LoopClient ==
    /\ loopPc = "range"
    /\ \E id \in Remaining :
         /\ visited' = visited \cup {id}
         /\ loopTarget' = id
         /\ IF id \in done
            THEN /\ RUnlockBeforeRemove
                 /\ loopPc' = "remove"
            ELSE /\ loopPc' = "send"
                 /\ UNCHANGED rlock
    /\ UNCHANGED <<clients, done, nextClientID, wlock, loopEvent, fresh,
                   connVars, clientStream, queueVars>>
    /\ UNCHANGED closeVars
    /\ UNCHANGED nonSSEVars

\* lines 99-106: default: sendEventToClient, and the removal on its error
LoopSend ==
    /\ loopPc = "send"
    /\ IF sendEventToClientFails(Get(loopEvent).marshals)
       THEN /\ RUnlockBeforeRemove
            /\ loopPc' = "remove"
            /\ UNCHANGED <<loopTarget, clientStream>>
       ELSE /\ sendEventToClientWrite(ConnOf(loopTarget),
                   Written("broadcast", Get(loopEvent).id))
            /\ loopTarget' = 0
            /\ loopPc' = "range"
            /\ UNCHANGED rlock
    /\ UNCHANGED <<clients, done, nextClientID, wlock, loopEvent, visited,
                   fresh, connVars, queueVars>>
    /\ UNCHANGED closeVars
    /\ UNCHANGED nonSSEVars

\* lines 96, 104: removeClient(clientID) after RUnlock
LoopRemove ==
    /\ loopPc = "remove"
    /\ CanLock
    /\ removeClient(loopTarget)
    /\ loopTarget' = 0
    /\ loopPc' = "relock"
    /\ UNCHANGED <<nextClientID, wlock, rlock, loopEvent, visited, fresh,
                   connVars, clientStream, queueVars>>
    /\ UNCHANGED nonSSEVars

\* line 109: the range is over; RUnlock and back to the channel.  An entry
\* added to the map during the iteration may be produced or skipped.
LoopRUnlock ==
    /\ loopPc = "range"
    /\ Remaining \subseteq fresh
    /\ rlock' = FALSE
    /\ loopEvent' = None
    /\ visited' = {}
    /\ fresh' = {}
    /\ loopPc' = "recv"
    /\ UNCHANGED <<clients, done, nextClientID, wlock, loopTarget, connVars,
                   clientStream, queueVars>>
    /\ UNCHANGED closeVars
    /\ UNCHANGED nonSSEVars

IncrementOnce == IF nextClientID = 0 THEN nextClientID + 1 ELSE nextClientID
\* line 142: s.nextClientID++
Increment == nextClientID + 1

\* addClient, lines 139-153: Lock, the next client id, the registry entry.
\* The id is client_<seconds>_<nextClientID>; the model keeps the counter.
AddClientRegister(c) ==
    /\ connPc[c] = "idle"
    /\ CanLock
    /\ wlock' = c
    /\ nextClientID' = Increment
    /\ clientID' = [clientID EXCEPT ![c] = nextClientID']
    /\ clients' = clients \cup {nextClientID'}
    /\ fresh' = IF loopPc \in {"remove", "relock"}
                THEN fresh \cup {nextClientID'} ELSE fresh
    /\ connPc' = [connPc EXCEPT ![c] = "adding"]
    /\ UNCHANGED <<done, rlock, loopPc, loopEvent, visited, loopTarget, kaPc,
                   ctxDone, stuck, ticks, clientStream, queueVars>>
    /\ UNCHANGED closeVars
    /\ UNCHANGED nonSSEVars

\* the connected event always marshals (a map[string]string)
ConnectEventMarshals == TRUE

\* addClient, lines 155-171, and HandleSSE, lines 203-238: the connected
\* event under the lock, Unlock, then the keepalive goroutine and the wait
AddClientConfirm(c) ==
    /\ connPc[c] = "adding"
    /\ wlock = c
    /\ wlock' = 0
    /\ IF sendEventToClientFails(ConnectEventMarshals)
       THEN /\ clients' = clients \ {clientID[c]}
            /\ connPc' = [connPc EXCEPT ![c] = "returned"]
            /\ UNCHANGED <<clientStream, kaPc>>
       ELSE /\ sendEventToClientWrite(c, Written("connected", clientID[c]))
            /\ connPc' = [connPc EXCEPT ![c] = "waiting"]
            /\ kaPc' = [kaPc EXCEPT ![c] = "running"]
            /\ UNCHANGED clients
    /\ UNCHANGED <<done, nextClientID, rlock, loopVars, clientID, ctxDone,
                   stuck, ticks, queueVars>>
    /\ UNCHANGED closeVars
    /\ UNCHANGED nonSSEVars

\* the peer of an established connection stops reading and the connection's
\* buffers fill up, or the peer reads again
ClientStalls(c) ==
    /\ connPc[c] = "waiting"
    /\ c \notin ctxDone
    /\ c \notin stuck
    /\ stuck' = stuck \cup {c}
    /\ UNCHANGED <<clients, done, nextClientID, wlock, rlock, loopVars, connPc,
                   kaPc, clientID, ctxDone, ticks, clientStream, queueVars>>
    /\ UNCHANGED closeVars
    /\ UNCHANGED nonSSEVars

ClientResumes(c) ==
    /\ c \in stuck
    /\ stuck' = stuck \ {c}
    /\ UNCHANGED <<clients, done, nextClientID, wlock, rlock, loopVars, connPc,
                   kaPc, clientID, ctxDone, ticks, clientStream, queueVars>>
    /\ UNCHANGED closeVars
    /\ UNCHANGED nonSSEVars

\* the owner of the connection goes away: r.Context() is done, and a write
\* to the closed connection returns at once
CancelContext(c) ==
    /\ connPc[c] \in {"adding", "waiting"}
    /\ c \notin ctxDone
    /\ ctxDone' = ctxDone \cup {c}
    /\ stuck' = stuck \ {c}
    /\ UNCHANGED <<clients, done, nextClientID, wlock, rlock, loopVars, connPc,
                   kaPc, clientID, ticks, clientStream, queueVars>>
    /\ UNCHANGED closeVars
    /\ UNCHANGED nonSSEVars

\* lines 216-218: case <-ctx.Done(): removeClient, return
KeepaliveCtxDone(c) ==
    /\ kaPc[c] = "running"
    /\ c \in ctxDone
    /\ CanLock
    /\ removeClient(clientID[c])
    /\ kaPc' = [kaPc EXCEPT ![c] = "exited"]
    /\ UNCHANGED <<nextClientID, wlock, rlock, loopVars, connPc, clientID,
                   ctxDone, stuck, ticks, clientStream, queueVars>>
    /\ UNCHANGED nonSSEVars

\* lines 219-220: case <-client.Done: return
KeepaliveClientDone(c) ==
    /\ kaPc[c] = "running"
    /\ clientID[c] \in done
    /\ kaPc' = [kaPc EXCEPT ![c] = "exited"]
    /\ UNCHANGED <<clients, done, nextClientID, wlock, rlock, loopVars, connPc,
                   clientID, ctxDone, stuck, ticks, clientStream, queueVars>>
    /\ UNCHANGED closeVars
    /\ UNCHANGED nonSSEVars

\* line 221: case <-ticker.C
KeepaliveTick(c) ==
    /\ kaPc[c] = "running"
    /\ ticks[c] < MaxTicks
    /\ ticks' = [ticks EXCEPT ![c] = @ + 1]
    /\ kaPc' = [kaPc EXCEPT ![c] = "writing"]
    /\ UNCHANGED <<clients, done, nextClientID, wlock, rlock, loopVars, connPc,
                   clientID, ctxDone, stuck, clientStream, queueVars>>
    /\ UNCHANGED closeVars
    /\ UNCHANGED nonSSEVars

\* lines 222-232: the keepalive event (it always marshals), with no lock held
KeepaliveSend(c) ==
    /\ kaPc[c] = "writing"
    /\ sendEventToClientWrite(c, Written("keepalive", 0))
    /\ kaPc' = [kaPc EXCEPT ![c] = "running"]
    /\ UNCHANGED <<clients, done, nextClientID, wlock, rlock, loopVars, connPc,
                   clientID, ctxDone, stuck, ticks, queueVars>>
    /\ UNCHANGED closeVars
    /\ UNCHANGED nonSSEVars

\* line 238: <-client.Done, then HandleSSE returns
HandleSSEReturn(c) ==
    /\ connPc[c] = "waiting"
    /\ clientID[c] \in done
    /\ connPc' = [connPc EXCEPT ![c] = "returned"]
    /\ UNCHANGED <<clients, done, nextClientID, wlock, rlock, loopVars, kaPc,
                   clientID, ctxDone, stuck, ticks, clientStream, queueVars>>
    /\ UNCHANGED closeVars
    /\ UNCHANGED nonSSEVars

GetStatsCapacity ==
    [connectedClients |-> Cardinality(clients),
     bufferSize |-> BufferSize,
     serverVersion |-> "0.0.1"]
\* GetStats, lines 454-463
GetStats ==
    [connectedClients |-> Cardinality(clients),
     bufferSize |-> Len(broadcast),
     serverVersion |-> "0.0.1"]

NextLoop ==
    \/ LoopReceive
    \/ LoopRLock
    \/ LoopClient
    \/ LoopSend
    \/ LoopRemove
    \/ LoopRUnlock

NextSSE ==
    \/ \E e \in Events : BroadcastEvent(e)
    \/ NextLoop
    \/ \E c \in Conns : ClientStalls(c)
    \/ \E c \in Conns : ClientResumes(c)
    \/ \E c \in Conns : KeepaliveSend(c)
    \/ \E c \in Conns : AddClientRegister(c)
    \/ \E c \in Conns : AddClientConfirm(c)
    \/ \E c \in Conns : CancelContext(c)
    \/ \E c \in Conns : KeepaliveCtxDone(c)
    \/ \E c \in Conns : KeepaliveClientDone(c)
    \/ \E c \in Conns : KeepaliveTick(c)
    \/ \E c \in Conns : HandleSSEReturn(c)

(***************************************************************************)
(* The keepalive timers: the configuration the server is constructed with  *)
(* and the ticker each HandleSSE creates.  Durations are in seconds.       *)
(***************************************************************************)
KeepaliveIntervals == {15, 30, 60}
\* the configuration NewMCPSSEServer is called with: nil, or a KeepaliveInterval
Configs == {None} \cup {Some(d) : d \in KeepaliveIntervals}

\* DefaultSSEServerConfig, line 56
DefaultKeepaliveInterval == 30
\* HandleSSE, line 211: time.NewTicker(30 * time.Second)
TickerPeriod == 30
\* DefaultSSEServerConfig, line 57
DefaultBufferSize == 100
\* NewMCPSSEServer, lines 64-66 and 78: the capacity of s.broadcast is the
\* BufferSize of the configuration, the default one's when config is nil
ChannelCapacity(size) == IF size = None THEN DefaultBufferSize ELSE Get(size)

nonTimerVars == <<docVars, streamVars, sseVars, toolVars, idVars,
    scrapeVars>>

InitTimer ==
    /\ config = None
    /\ now = 0
    /\ ticker = [c \in Conns |-> None]
    /\ keepaliveAt = [c \in Conns |-> <<>>]

\* NewMCPSSEServer, lines 63-67: a nil config is replaced by the default one
NewMCPSSEServer(cfg) ==
    /\ config = None
    /\ config' = IF cfg = None THEN Some(DefaultKeepaliveInterval) ELSE cfg
    /\ UNCHANGED <<now, ticker, keepaliveAt>>
    /\ UNCHANGED nonTimerVars

\* HandleSSE, lines 210-212: the keepalive goroutine creates its ticker
NewTicker(c) ==
    /\ config # None
    /\ ticker[c] = None
    /\ ticker' = [ticker EXCEPT ![c] = Some([period |-> TickerPeriod,
                                              next |-> now + TickerPeriod])]
    /\ UNCHANGED <<config, now, keepaliveAt>>
    /\ UNCHANGED nonTimerVars

TickerDue(c) == ticker[c] # None /\ Get(ticker[c]).next <= now

\* line 221: case <-ticker.C, and the keepalive event of lines 222-228
TickerFires(c) ==
    /\ TickerDue(c)
    /\ keepaliveAt' = [keepaliveAt EXCEPT ![c] = Append(@, Get(ticker[c]).next)]
    /\ ticker' = [ticker EXCEPT ![c] =
                     Some([Get(@) EXCEPT !.next = @ + Get(ticker[c]).period])]
    /\ UNCHANGED <<config, now>>
    /\ UNCHANGED nonTimerVars

\* time passes once every due tick has been taken
TimePasses ==
    /\ now + TimeStep <= MaxTime
    /\ \A c \in Conns : ~TickerDue(c)
    /\ now' = now + TimeStep
    /\ UNCHANGED <<config, ticker, keepaliveAt>>
    /\ UNCHANGED nonTimerVars

NextTimer ==
    \/ \E cfg \in Configs : NewMCPSSEServer(cfg)
    \/ \E c \in Conns : NewTicker(c)
    \/ \E c \in Conns : TickerFires(c)
    \/ TimePasses

(***************************************************************************)
(* The MCP tool handlers: getScrapeHandler and getDocumentHandler.         *)
(***************************************************************************)
Tools == 1..MaxTools
ToolKinds == {"scrape", "getDocument"}
\* the typed arguments the MCP library hands to the handlers
ToolArgs(kind) ==
    IF kind = "scrape"
    THEN [url : ReqURLs, selector : ReqSelectors]
    ELSE [path : ReqPaths]

nonToolVars == <<docVars, streamVars, sseVars, timerVars, idVars,
    scrapeVars>>

InitTool ==
    /\ toolKind = [t \in Tools |-> ""]
    /\ toolArgs = [t \in Tools |-> None]
    /\ toolPc = [t \in Tools |-> "idle"]
    /\ toolRet = [t \in Tools |-> None]
    /\ toolCalls = [t \in Tools |-> 0]
    /\ toolFailed = [t \in Tools |-> ""]

ScrapeArgsErrorURLOnly(args) ==
    IF args.url = "" THEN Some("url is required") ELSE None
\* getScrapeHandler: "Validate inputs"
ScrapeArgsError(args) ==
    IF args.url = "" THEN Some("url is required")
    ELSE IF args.selector = "" THEN Some("selector is required")
    ELSE None
\* getDocumentHandler: "Validate inputs"
DocumentArgsError(args) ==
    IF args.path = "" THEN Some("path is required") ELSE None
ArgsError(kind, args) ==
    IF kind = "scrape" THEN ScrapeArgsError(args) ELSE DocumentArgsError(args)

ReturnToolErrorAsError(text) == [result |-> None, err |-> Some(text)]
\* return mcp.NewToolResultError(text), nil
ReturnToolError(text) ==
    [result |-> Some([IsError |-> TRUE, Content |-> <<text>>]), err |-> None]
\* return mcp.NewToolResultText(text), nil
ReturnToolText(text) ==
    [result |-> Some([IsError |-> FALSE, Content |-> <<text>>]), err |-> None]

\* the text of the result when the downstream call of a tool fails
DownstreamFailure(kind) ==
    IF kind = "scrape" THEN "failed to scrape content" ELSE "failed to get document"

\* the handler is called and validates its arguments
ToolValidate(t) ==
    /\ toolPc[t] = "idle"
    /\ \E k \in ToolKinds : \E args \in ToolArgs(k) :
          /\ toolKind' = [toolKind EXCEPT ![t] = k]
          /\ toolArgs' = [toolArgs EXCEPT ![t] = Some(args)]
          /\ IF ArgsError(k, args) # None
             THEN /\ toolRet' = [toolRet EXCEPT ![t] =
                                    Some(ReturnToolError(Get(ArgsError(k, args))))]
                  /\ toolPc' = [toolPc EXCEPT ![t] = "done"]
                  /\ toolFailed' = [toolFailed EXCEPT ![t] = "validation"]
             ELSE /\ toolRet' = toolRet
                  /\ toolFailed' = toolFailed
                  /\ toolPc' = [toolPc EXCEPT ![t] =
                                   IF k = "scrape" THEN "call" ELSE "request"]
    /\ UNCHANGED toolCalls
    /\ UNCHANGED nonToolVars

\* getDocumentHandler: the original request from the context, or a new one
ToolRequest(t) ==
    /\ toolPc[t] = "request"
    /\ \E inContext \in BOOLEAN : \E created \in BOOLEAN :
          IF inContext \/ created
          THEN /\ toolPc' = [toolPc EXCEPT ![t] = "call"]
               /\ toolRet' = toolRet
               /\ toolFailed' = toolFailed
          ELSE /\ toolPc' = [toolPc EXCEPT ![t] = "done"]
               /\ toolRet' = [toolRet EXCEPT ![t] =
                                 Some(ReturnToolError("failed to create request"))]
               /\ toolFailed' = [toolFailed EXCEPT ![t] = "request"]
    /\ UNCHANGED <<toolKind, toolArgs, toolCalls>>
    /\ UNCHANGED nonToolVars

\* scrape.Scrape(ctx, client, url, selector) or GetDocument(nil, req, path)
ToolDownstream(t) ==
    /\ toolPc[t] = "call"
    /\ toolCalls' = [toolCalls EXCEPT ![t] = @ + 1]
    /\ \E ok \in BOOLEAN :
          IF ok
          THEN /\ toolPc' = [toolPc EXCEPT ![t] = "marshal"]
               /\ toolRet' = toolRet
               /\ toolFailed' = toolFailed
          ELSE /\ toolPc' = [toolPc EXCEPT ![t] = "done"]
               /\ toolRet' = [toolRet EXCEPT ![t] =
                                 Some(ReturnToolError(DownstreamFailure(toolKind[t])))]
               /\ toolFailed' = [toolFailed EXCEPT ![t] = "downstream"]
    /\ UNCHANGED <<toolKind, toolArgs>>
    /\ UNCHANGED nonToolVars

\* json.Marshal(response) and the return of the handler
ToolMarshal(t) ==
    /\ toolPc[t] = "marshal"
    /\ \E ok \in BOOLEAN :
          /\ toolRet' = [toolRet EXCEPT ![t] =
                            Some(IF ok THEN ReturnToolText("response")
                                 ELSE ReturnToolError("failed to marshal response"))]
          /\ toolFailed' = [toolFailed EXCEPT ![t] = IF ok THEN "" ELSE "marshal"]
    /\ toolPc' = [toolPc EXCEPT ![t] = "done"]
    /\ UNCHANGED <<toolKind, toolArgs, toolCalls>>
    /\ UNCHANGED nonToolVars

NextTool ==
    \E t \in Tools :
        \/ ToolValidate(t)
        \/ ToolRequest(t)
        \/ ToolDownstream(t)
        \/ ToolMarshal(t)

(***************************************************************************)
(* The ids of the events.  Every event the server builds gets the id       *)
(* fmt.Sprintf("<type>_%d", time.Now().UnixNano()): the connected event in *)
(* addClient, the keepalive events of a connection's keepalive goroutine,  *)
(* and the start, result, error and complete events of an operation.       *)
(* Connections and operations run in goroutines of their own and read the  *)
(* clock independently.                                                    *)
(***************************************************************************)
\* the goroutines that build events
Emitters == [kind : {"conn"}, n : Conns] \cup [kind : {"op"}, n : Ops]

nonIDVars == <<docVars, streamVars, sseVars, timerVars, toolVars,
    scrapeVars>>

InitID ==
    /\ clock = 0
    /\ idPc = [m \in Emitters |-> IF m.kind = "conn" THEN "connect" ELSE "idle"]
    /\ eventIDs = [m \in Emitters |-> <<>>]

\* fmt.Sprintf("<type>_%d", time.Now().UnixNano())
NewEventID(type) == <<type, clock>>

\* the goroutine m builds an event of type `type`
BuildEvent(m, type) ==
    eventIDs' = [eventIDs EXCEPT ![m] = Append(@, NewEventID(type))]

\* addClient, line 157: the connected event of a new connection.  addClient
\* holds clientsMutex.Lock (lines 139-140), so the connected events are built
\* one after the other, at different times
ConnectEventID(c) ==
    LET m == [kind |-> "conn", n |-> c]
    IN /\ idPc[m] = "connect"
       /\ \A d \in Conns :
             LET ids == eventIDs[[kind |-> "conn", n |-> d]]
             IN ids # <<>> => ids[1][2] < clock
       /\ BuildEvent(m, "connect")
       /\ idPc' = [idPc EXCEPT ![m] = "keepalive"]
       /\ UNCHANGED clock
       /\ UNCHANGED nonIDVars

\* HandleSSE, line 224: a keepalive event of a connection
KeepaliveEventID(c) ==
    LET m == [kind |-> "conn", n |-> c]
    IN /\ idPc[m] = "keepalive"
       /\ Len(eventIDs[m]) <= MaxTicks
       /\ BuildEvent(m, "keepalive")
       /\ UNCHANGED <<clock, idPc>>
       /\ UNCHANGED nonIDVars

\* HandleScrapeSSE, line 273, HandleGetDocumentSSE, line 366: the start event
StartEventID(o) ==
    LET m == [kind |-> "op", n |-> o]
    IN /\ idPc[m] = "idle"
       /\ \E k \in OpKinds :
             /\ BuildEvent(m, EventName(k, "start"))
             /\ idPc' = [idPc EXCEPT ![m] = k]
       /\ UNCHANGED clock
       /\ UNCHANGED nonIDVars

\* lines 292, 305, 384, 400, 413: the result or the error event
OutcomeEventID(o) ==
    LET m == [kind |-> "op", n |-> o]
    IN /\ idPc[m] \in OpKinds
       /\ Len(eventIDs[m]) = 1
       /\ \E x \in {"result", "error"} :
             /\ BuildEvent(m, EventName(idPc[m], x))
             /\ idPc' = [idPc EXCEPT ![m] =
                            IF x = "error" THEN AfterError ELSE idPc[m]]
       /\ UNCHANGED clock
       /\ UNCHANGED nonIDVars

\* lines 319, 426: the complete event
CompleteEventID(o) ==
    LET m == [kind |-> "op", n |-> o]
    IN /\ idPc[m] \in OpKinds
       /\ Len(eventIDs[m]) = 2
       /\ BuildEvent(m, EventName(idPc[m], "complete"))
       /\ idPc' = [idPc EXCEPT ![m] = "done"]
       /\ UNCHANGED clock
       /\ UNCHANGED nonIDVars

\* a nanosecond passes
ClockAdvances ==
    /\ clock < MaxClock
    /\ clock' = clock + 1
    /\ UNCHANGED <<idPc, eventIDs>>
    /\ UNCHANGED nonIDVars

NextID ==
    \/ \E c \in Conns : ConnectEventID(c) \/ KeepaliveEventID(c)
    \/ \E o \in Ops : StartEventID(o) \/ OutcomeEventID(o) \/ CompleteEventID(o)
    \/ ClockAdvances

(***************************************************************************)
(* scrape/htmlutils.go: extractNodeBySelector on a parsed document.  A     *)
(* document is a tree of html.Node: node 0 is the document node, kids      *)
(* gives the children of a node from FirstChild along NextSibling.         *)
(* Selectors, attribute values and tag names are strings of characters.    *)
(***************************************************************************)
ElementNode == "ElementNode"
TextNode == "TextNode"
DocumentNode == "DocumentNode"

\* the nodes below the document node
HTMLNodes == 1..MaxNodes
\* the shapes of the trees: a branch before a leaf, a chain with a fork, a
\* flat list
TreeShapes ==
    {(0 :> <<1, 3>>) @@ (1 :> <<2>>) @@ (2 :> <<>>) @@ (3 :> <<4>>) @@ (4 :> <<>>),
     (0 :> <<1>>) @@ (1 :> <<2, 3>>) @@ (2 :> <<4>>) @@ (3 :> <<>>) @@ (4 :> <<>>),
     (0 :> <<1, 2, 3, 4>>) @@ (1 :> <<>>) @@ (2 :> <<>>) @@ (3 :> <<>>) @@ (4 :> <<>>)}
\* what a node below the document node can be
NodeLabels ==
    {[Type |-> ElementNode, Data |-> <<"a">>, Attr |-> <<>>],
     [Type |-> ElementNode, Data |-> <<"b">>,
      Attr |-> <<[Key |-> "id", Val |-> <<"a">>]>>],
     [Type |-> ElementNode, Data |-> <<"a">>,
      Attr |-> <<[Key |-> "class", Val |-> <<"a", "b">>]>>],
     [Type |-> ElementNode, Data |-> <<"b">>,
      Attr |-> <<[Key |-> "class", Val |-> <<"b">>], [Key |-> "id", Val |-> <<"b">>]>>],
     [Type |-> TextNode, Data |-> <<"a">>, Attr |-> <<>>]}
DocumentLabel == [Type |-> DocumentNode, Data |-> <<>>, Attr |-> <<>>]
\* the documents html.Parse can return
Documents ==
    {[kids |-> sh, node |-> (0 :> DocumentLabel) @@ lb] :
        sh \in TreeShapes, lb \in [HTMLNodes -> NodeLabels]}
Selectors ==
    {<<>>, <<"#">>, <<".">>, <<"a">>, <<"b">>, <<"#", "a">>, <<"#", "b">>,
     <<".", "a">>, <<".", "b">>, <<".", "a", "b">>, <<".", "b", "a">>,
     <<"#", "a", "b">>, <<"a", "b">>}

\* strings.TrimPrefix
TrimPrefix(s, p) == IF HasPrefix(s, p) THEN SubSeq(s, Len(p) + 1, Len(s)) ELSE s
\* strings.Contains
Contains(s, sub) ==
    \E k \in 0..(Len(s) - Len(sub)) : SubSeq(s, k + 1, k + Len(sub)) = sub

\* return n, nil
ReturnNode(n) == [node |-> Some(n), err |-> None]
\* return nil, fmt.Errorf(...)
ReturnNotFound(what) == [node |-> None, err |-> Some("element with " \o what \o " not found")]

\* for c := n.FirstChild; c != nil; c = c.NextSibling: the first result with
\* a nil error, if any
FirstResult(results, what) ==
    LET ok == {k \in DOMAIN results : results[k].err = None}
    IN IF ok = {} THEN ReturnNotFound(what)
       ELSE results[CHOOSE k \in ok : \A j \in ok : k <= j]

RECURSIVE findNodeByID(_, _, _)
findNodeByID(d, n, id) ==
    IF /\ d.node[n].Type = ElementNode
       /\ \E k \in 1..Len(d.node[n].Attr) :
             d.node[n].Attr[k].Key = "id" /\ d.node[n].Attr[k].Val = id
    THEN ReturnNode(n)
    ELSE FirstResult([k \in 1..Len(d.kids[n]) |-> findNodeByID(d, d.kids[n][k], id)],
                     "id")

RECURSIVE findNodeByClassExact(_, _, _)
findNodeByClassExact(d, n, class) ==
    IF /\ d.node[n].Type = ElementNode
       /\ \E k \in 1..Len(d.node[n].Attr) :
             d.node[n].Attr[k].Key = "class" /\ d.node[n].Attr[k].Val = class
    THEN ReturnNode(n)
    ELSE FirstResult([k \in 1..Len(d.kids[n]) |->
                         findNodeByClassExact(d, d.kids[n][k], class)], "class")
RECURSIVE findNodeByClass(_, _, _)
findNodeByClass(d, n, class) ==
    IF /\ d.node[n].Type = ElementNode
       /\ \E k \in 1..Len(d.node[n].Attr) :
             d.node[n].Attr[k].Key = "class" /\ Contains(d.node[n].Attr[k].Val, class)
    THEN ReturnNode(n)
    ELSE FirstResult([k \in 1..Len(d.kids[n]) |->
                         findNodeByClass(d, d.kids[n][k], class)], "class")

RECURSIVE findNodeByTag(_, _, _)
findNodeByTag(d, n, tag) ==
    IF d.node[n].Type = ElementNode /\ d.node[n].Data = tag
    THEN ReturnNode(n)
    ELSE FirstResult([k \in 1..Len(d.kids[n]) |-> findNodeByTag(d, d.kids[n][k], tag)],
                     "tag")

extractNodeBySelector(d, sel) ==
    IF HasPrefix(sel, <<"#">>) THEN findNodeByID(d, 0, TrimPrefix(sel, <<"#">>))
    ELSE IF HasPrefix(sel, <<".">>) THEN findNodeByClass(d, 0, TrimPrefix(sel, <<".">>))
    ELSE findNodeByTag(d, 0, sel)

nonScrapeVars == <<docVars, streamVars, sseVars, timerVars, toolVars, idVars>>

InitScrape ==
    /\ htmlDoc = None
    /\ selector = <<>>
    /\ selected = None

\* scrape.go, line 40: html.Parse has returned a document
ParseHTML ==
    /\ htmlDoc = None
    /\ \E d \in Documents : htmlDoc' = Some(d)
    /\ UNCHANGED <<selector, selected>>
    /\ UNCHANGED nonScrapeVars

\* scrape.go, line 46: selectedNode, err := extractNodeBySelector(doc, selector)
ExtractNode ==
    /\ htmlDoc # None
    /\ selected = None
    /\ \E sel \in Selectors :
          /\ selector' = sel
          /\ selected' = Some(extractNodeBySelector(Get(htmlDoc), sel))
    /\ UNCHANGED htmlDoc
    /\ UNCHANGED nonScrapeVars

NextScrape == ParseHTML \/ ExtractNode

Init ==
    InitDoc /\ InitStream /\ InitSSE /\ InitTimer /\ InitTool /\ InitID /\ InitScrape

Spec == Init /\ [][NextSSE]_vars
\* the Go scheduler runs every runnable goroutine: the fan-out loop, and the
\* addClient that holds the lock the loop waits for; a write the loop is
\* blocked in completes once the peer reads again
FairSpec ==
    /\ Spec
    /\ WF_vars(NextLoop)
    /\ SF_vars(LoopSend)
    /\ \A c \in Conns : WF_vars(AddClientConfirm(c))

\* the steps of a connection's own goroutines: the keepalive task and HandleSSE
NextConn(c) ==
    \/ KeepaliveClientDone(c)
    \/ KeepaliveSend(c)
    \/ HandleSSEReturn(c)

\* every connection's goroutines are scheduled as well; a removeClient that
\* waits for clientsMutex.Lock gets it whenever the lock keeps being released
\* (a waiting writer holds off new readers)
FairSpecConn ==
    /\ FairSpec
    /\ \A c \in Conns : WF_vars(NextConn(c))
    /\ \A c \in Conns : SF_vars(KeepaliveCtxDone(c))

SpecDoc == Init /\ [][NextDoc]_vars
SpecTimer == Init /\ [][NextTimer]_vars

\* the streamed operations next to connecting clients and producers
NextServer ==
    \/ NextStream
    \/ \E e \in Events : BroadcastEvent(e)
    \/ \E c \in Conns : AddClientRegister(c)
    \/ \E c \in Conns : AddClientConfirm(c)
SpecServer == Init /\ [][NextServer]_vars
SpecStream == Init /\ [][NextStream]_vars
\* the selector search on the documents html.Parse returns
SpecScrape == Init /\ [][NextScrape]_vars
\* the events built by concurrent connections and operations
SpecIDs == Init /\ [][NextID]_vars
\* the requests to the server: tool calls and streaming triggers
SpecRequests == Init /\ [][NextTool \/ NextStream]_vars

(***************************************************************************)
(* Vocabulary of the claims about GetDocument.                             *)
(***************************************************************************)
\* a URI is valid when it is non-empty and starts with "/"
ValidURI(uri) == Len(uri) > 0 /\ uri[1] = "/"
ValidID(id) == ValidURI(NodeURI[id])
ValidIDsOf(ids) == SelectSeq(ids, ValidID)
IDsOf(sums) == [k \in 1..Len(sums) |-> sums[k].ID]
TitlesOf(sums) == [k \in 1..Len(sums) |-> sums[k].Title]
Reverse(s) == [k \in 1..Len(s) |-> s[Len(s) - k + 1]]
PositionOf(s, x) == CHOOSE k \in 1..Len(s) : s[k] = x
IsRealSummary(sm) == sm # ZeroSummary
ItemIsValid(it) == ValidURI(it.URI)

Returned == pc = "done" /\ ret.doc # None
HasPivot == parentNode # None /\ CurID \in Range(Get(parentNode).Index)

\* C1: GetDocument is all-or-nothing: once any step has failed the call has
\* returned an error and a nil Document, and a non-nil Document is returned
\* only with a nil error, after no step failed and every loop ran to its end.
C1_AllOrNothing ==
    /\ failed # "" => pc = "done" /\ ret.doc = None /\ ret.err # ""
    /\ ret.doc # None =>
          /\ pc = "done" /\ failed = "" /\ ret.err = ""
          /\ ret.doc = doc
          /\ contentNode # None /\ i > Len(Get(contentNode).Index)
          /\ Len(Get(content).Path) > 0 => parentNode # None

\* a step failed after the local Document already held siblings
C1_Witness ==
    /\ pc = "done" /\ failed = "child scrape"
    /\ doc # None /\ Len(Get(doc).PrevSiblings) > 0
    /\ ret.doc = None

\* C2 (as claimed): prevSiblings are the index entries before the current id
\* and nextSiblings the entries after it, in index order, the current node in
\* neither.
C2_SiblingsAreIndexEntries ==
    (Returned /\ HasPivot) =>
        LET idx == Get(parentNode).Index
            p == PositionOf(idx, CurID)
            d == Get(ret.doc)
        IN /\ IDsOf(d.PrevSiblings) = SubSeq(idx, 1, p - 1)
           /\ IDsOf(d.NextSiblings) = SubSeq(idx, p + 1, Len(idx))
           /\ CurID \notin Range(IDsOf(d.PrevSiblings) \o IDsOf(d.NextSiblings))

\* C2 (amended): prevSiblings are the index entries with a valid URI before
\* the current id and nextSiblings those after it, in index order, the current
\* node in neither.
C2_SiblingsAreValidIndexEntries ==
    (Returned /\ HasPivot) =>
        LET idx == Get(parentNode).Index
            p == PositionOf(idx, CurID)
            d == Get(ret.doc)
        IN /\ IDsOf(d.PrevSiblings) = ValidIDsOf(SubSeq(idx, 1, p - 1))
           /\ IDsOf(d.NextSiblings) = ValidIDsOf(SubSeq(idx, p + 1, Len(idx)))
           /\ CurID \notin Range(IDsOf(d.PrevSiblings) \o IDsOf(d.NextSiblings))

\* a returned Document with siblings on both sides of the pivot
C2_Witness ==
    /\ Returned /\ HasPivot
    /\ Len(Get(ret.doc).PrevSiblings) >= 1
    /\ Len(Get(ret.doc).NextSiblings) >= 1
    /\ Len(Get(ret.doc).PrevSiblings) + Len(Get(ret.doc).NextSiblings) >= 3

\* C3: the returned breadcrumb has exactly one entry per ancestor with a valid
\* URI, and no empty or placeholder entry for an invalid one.
C3_BreadcrumbLengthIsValidCount ==
    Returned =>
        LET path == Get(content).Path
            bc == Get(ret.doc).Breadcrump
        IN /\ Len(bc) = Len(SelectSeq(path, ItemIsValid))
           /\ \A k \in 1..Len(bc) : IsRealSummary(bc[k])

\* C4: the breadcrumb is root-first: the summaries of the valid ancestors are
\* in the reverse of the content source's nearest-first order, each at the
\* mirrored position of its ancestor, so a valid parent is last and a valid
\* root is first.
C4_BreadcrumbRootFirst ==
    Returned =>
        LET path == Get(content).Path
            bc == Get(ret.doc).Breadcrump
            n == Len(path)
            valid == SelectSeq(path, ItemIsValid)
        IN /\ TitlesOf(SelectSeq(bc, IsRealSummary)) =
                 Reverse([k \in 1..Len(valid) |-> BaseURL \o valid[k].URI])
           /\ \A k \in 1..n : ItemIsValid(path[k]) =>
                 /\ n - k + 1 \in 1..Len(bc)
                 /\ bc[n - k + 1].Title = BaseURL \o path[k].URI

\* a returned Document below two valid ancestors
C4_Witness ==
    /\ Returned
    /\ Len(Get(content).Path) = 2
    /\ \A k \in 1..2 : ItemIsValid(Get(content).Path[k])

\* C5: no scrape call is ever issued for a sibling or an ancestor with an
\* invalid URI; such a sibling is in neither sibling list; and every sibling
\* that is listed is on the side its index position gives it relative to the
\* pivot, whatever invalid entries stand around it.
C5_InvalidURISkipped ==
    /\ \A k \in 1..Len(scrapes) :
          scrapes[k].kind \in {"ancestor", "sibling"} => ValidURI(scrapes[k].uri)
    /\ doc # None =>
          \A id \in Range(IDsOf(Get(doc).PrevSiblings) \o IDsOf(Get(doc).NextSiblings)) :
              ValidID(id)
    /\ (Returned /\ HasPivot) =>
          LET idx == Get(parentNode).Index
              p == PositionOf(idx, CurID)
              d == Get(ret.doc)
          IN /\ \A id \in Range(idx) \ {CurID} :
                    /\ (id \in Range(IDsOf(d.PrevSiblings))) =
                           (ValidID(id) /\ PositionOf(idx, id) < p)
                    /\ (id \in Range(IDsOf(d.NextSiblings))) =
                           (ValidID(id) /\ PositionOf(idx, id) > p)
             /\ Cardinality({k \in 1..Len(scrapes) : scrapes[k].kind = "sibling"}) =
                    Len(ValidIDsOf(idx)) - 1

\* a returned Document whose parent index holds invalid siblings before the
\* pivot and valid ones on both sides
C5_Witness ==
    /\ Returned /\ HasPivot
    /\ LET idx == Get(parentNode).Index
           p == PositionOf(idx, CurID)
       IN /\ \E k \in 1..(p - 1) : ~ValidID(idx[k])
          /\ \E k \in 1..(p - 1) : ValidID(idx[k])
          /\ \E k \in (p + 1)..Len(idx) : ValidID(idx[k])
    /\ \E k \in 1..Len(Get(content).Path) : ~ItemIsValid(Get(content).Path[k])

(***************************************************************************)
(* Claims about the streamed operations.                                   *)
(***************************************************************************)
Started(o) == Len(emitted[o]) > 0 /\ emitted[o][1] = EventName(opKind[o], "start")
Finished(o) == gPc[o] = "done"
IsPrefix(s, t) == Len(s) <= Len(t) /\ SubSeq(t, 1, Len(s)) = s
FullSequences(k) ==
    {<<EventName(k, "start"), EventName(k, x), EventName(k, "complete")>> :
        x \in {"result", "error"}}

\* C6: every streamed operation that emitted its start event and has ended
\* has emitted its *_complete event, after a *_result and after a *_error
\* alike.
C6_CompleteAlwaysEmitted ==
    \A o \in Ops :
        (Started(o) /\ Finished(o)) =>
            EventName(opKind[o], "complete") \in Range(emitted[o])

\* C7: the events of one operation are emitted in the order start, then
\* exactly one of result or error, then complete: what has been emitted so far
\* is a prefix of such a sequence, and an operation that has ended has emitted
\* all three.
C7_StartOutcomeComplete ==
    \A o \in Ops :
        /\ \E full \in FullSequences(opKind[o]) : IsPrefix(emitted[o], full)
        /\ (Started(o) /\ Finished(o)) => emitted[o] \in FullSequences(opKind[o])

(***************************************************************************)
(* The broadcast queue and the fan-out loop.                               *)
(***************************************************************************)
Min(a, b) == IF a < b THEN a ELSE b
QueueFull == Len(broadcast) = BufferSize
Accepted == Len(broadcast) + dequeued
Dropped == offered - Accepted
InQueue(n) == \E k \in 1..Len(broadcast) : broadcast[k].id = n
Active(c) == connPc[c] = "waiting" /\ clientID[c] \in clients
WrittenTo(n, c) == Written("broadcast", n) \in Range(clientStream[c])
LoopBlockedOnWrite ==
    /\ loopPc = "send"
    /\ ~sendEventToClientFails(Get(loopEvent).marshals)
    /\ ConnOf(loopTarget) \in stuck

\* C8: broadcastEvent never blocks its caller: in every state, a full queue
\* and a fan-out loop blocked on a stuck client included, a producer's call
\* with its next event can complete.
C8_BroadcastEventNeverBlocks ==
    offered < MaxEvents =>
        \A e \in Events : e.id = offered + 1 => ENABLED BroadcastEvent(e)

\* a call has dropped an event on a full queue while the loop was blocked
C8_Witness ==
    /\ QueueFull
    /\ LoopBlockedOnWrite
    /\ warnings # <<>>

\* the counts the dispatcher keeps: s.nextClientID, and those GetStats reports
DispatcherCounters ==
    <<nextClientID, GetStats.connectedClients, GetStats.bufferSize>>

\* C9: every event dropped by broadcastEvent on a full queue is counted: a
\* call that drops its event (offered, not accepted) advances a count kept by
\* the dispatcher, so that the count follows the number of dropped events.
C9_DropsAreCounted ==
    [][Dropped' = Dropped + 1 => DispatcherCounters' # DispatcherCounters]_vars

\* C10: of the events offered, at least as many as the queue's capacity are
\* accepted; every accepted event is eventually dequeued by the fan-out loop
\* and written to each client that stays Active.
C10_AcceptedEventsReachActiveClients ==
    /\ [](Accepted >= Min(offered, BufferSize))
    /\ \A n \in EventIDs : InQueue(n) ~> ~InQueue(n)
    /\ \A n \in EventIDs : \A c \in Conns :
          (InQueue(n) /\ Active(c)) ~> (WrittenTo(n, c) \/ ~Active(c))

(***************************************************************************)
(* Failures of a send, and the removal of clients.                         *)
(***************************************************************************)
FailedTo(n, c) == [type |-> "broadcast", id |-> n, ok |-> FALSE] \in Range(clientStream[c])

\* C11: when the write of a broadcast event to a client fails, the fan-out
\* loop goes on to remove that client, and only then; the removal takes that
\* client alone out of the registry; and at the end of the fan-out every
\* client the loop visited and left registered has been sent the event.
C11_WriteFailureRemovesOnlyThatClient ==
    [][/\ (loopPc = "send" /\ loopPc' # "send") =>
             (WriteFails(ConnOf(loopTarget)) <=> loopPc' = "remove")
       /\ (loopPc = "remove" /\ loopPc' # "remove") =>
             clients' = clients \ {loopTarget}
       /\ (loopPc = "range" /\ loopPc' = "recv") =>
             \A id \in clients \cap visited :
                 WrittenTo(Get(loopEvent).id, ConnOf(id))]_vars

\* C12: a connection's done signal is raised at most once: no call of
\* removeClient closes a closed Done channel (no panic), and a call for a
\* client id that is no longer registered finds its done signal raised
\* already and changes nothing.
C12_DoneRaisedAtMostOnce ==
    /\ ~panicked
    /\ noopRemoves \subseteq done
    /\ clients \cap done = {}

\* the fan-out loop and the keepalive task both called removeClient for the
\* same client
C12_Witness ==
    /\ noopRemoves # {}
    /\ \E c \in Conns : clientID[c] \in noopRemoves /\ kaPc[c] = "exited" /\ c \in ctxDone
    /\ loopPc = "relock"

\* C13: under any interleaving of the fan-out, the keepalive ticks and the
\* removal of a client, every event (broadcast or keepalive) written to a
\* connection is written while its client is in the registry: nothing is
\* written to it after its removal.
C13_NoWriteAfterRemoval ==
    [][\A c \in Conns :
          clientStream'[c] # clientStream[c] => clientID[c] \in clients]_vars

ConnectSendFailed(c) ==
    /\ clientStream[c] # <<>>
    /\ clientStream[c][1].type = "connected"
    /\ ~clientStream[c][1].ok

\* C14: a connection whose connected event could not be sent is discarded
\* without becoming Active: once addClient is over its client is not in the
\* registry, nothing else is ever written to it, no keepalive task was
\* started for it and HandleSSE has returned.
C14_FailedConnectIsDiscarded ==
    \A c \in Conns :
        ConnectSendFailed(c) =>
            /\ clientID[c] \notin clients
            /\ Len(clientStream[c]) = 1
            /\ kaPc[c] = "none"
            /\ connPc[c] = "returned"

TypesOf(stream) == [k \in 1..Len(stream) |-> stream[k].type]

\* C15: on every connection's stream the first event written is the
\* connected event, carrying the client id the connection is registered
\* under; no broadcast or keepalive event comes before it, and there is no
\* second connected event.
C15_ConnectedEventFirst ==
    \A c \in Conns :
        clientStream[c] # <<>> =>
            /\ clientStream[c][1].type = "connected"
            /\ clientStream[c][1].id = clientID[c]
            /\ clientID[c] # 0
            /\ \A k \in 2..Len(clientStream[c]) :
                   clientStream[c][k].type \in {"broadcast", "keepalive"}

\* a connection has been sent its connected event, then a broadcast event
\* and a keepalive event
C15_Witness ==
    \E c \in Conns :
        /\ Len(clientStream[c]) >= 3
        /\ clientStream[c][1] = Written("connected", clientID[c])
        /\ {"broadcast", "keepalive"} \subseteq Range(TypesOf(clientStream[c]))

Cancelled(c) == c \in ctxDone /\ connPc[c] = "waiting"
Gone(c) ==
    /\ clientID[c] \notin clients
    /\ clientID[c] \in done
    /\ connPc[c] = "returned"

\* C16: when the owner of an Active connection cancels it, the client is
\* eventually removed from the registry, its done signal is raised and
\* HandleSSE returns.
C16_CancelledConnectionIsRemoved ==
    \A c \in Conns : Cancelled(c) ~> Gone(c)

KeepalivesSent(c) ==
    Cardinality({k \in 1..Len(clientStream[c]) :
                    clientStream[c][k].type = "keepalive"})
KeepalivePending(c) == IF kaPc[c] = "writing" THEN 1 ELSE 0

\* C17: each tick of a connection's keepalive timer causes exactly one
\* keepalive event to be sent to that connection and to no other; when that
\* send fails, the connection's task does not go back to waiting for the next
\* tick: it goes on to remove the client and stop.
C17_OneKeepalivePerTick ==
    /\ [](\A c \in Conns : KeepalivesSent(c) + KeepalivePending(c) = ticks[c])
    /\ [][\A c \in Conns :
             (kaPc[c] = "writing" /\ kaPc'[c] # "writing" /\ WriteFails(c)) =>
                 kaPc'[c] # "running"]_vars

\* C18: the period of every connection's keepalive ticker equals the
\* KeepaliveInterval of the configuration the server was constructed with
\* (30 seconds when none was given), and its keepalives are that far apart.
C18_KeepaliveIntervalIsConfigured ==
    \A c \in Conns :
        /\ ticker[c] # None => Get(ticker[c]).period = Get(config)
        /\ \A k \in 2..Len(keepaliveAt[c]) :
               keepaliveAt[c][k] - keepaliveAt[c][k - 1] = Get(config)

GoroutineStep(o) ==
    \/ OperationCall(o)
    \/ EmitError(o)
    \/ EmitResult(o)
    \/ EmitComplete(o)
NoRepeats(seq) == Cardinality(Range(seq)) = Len(seq)

\* C20: a streamed operation is not tied to its requesting connection: after
\* a disconnect its goroutine can still take every one of its steps up to the
\* end (nothing cancels it), the downstream call is made once, no event is
\* emitted twice, and the outcome event is the one of the call whatever
\* happened to the deliveries.
C20_OperationOutlivesConnection ==
    \A o \in Ops :
        /\ (o \in disconnected /\ gPc[o] \notin {"none", "done"}) =>
               ENABLED GoroutineStep(o)
        /\ calls[o] <= 1
        /\ NoRepeats(emitted[o])
        /\ Len(emitted[o]) >= 2 =>
               /\ calls[o] = 1
               /\ emitted[o][2] \in {EventName(opKind[o], "result"),
                                     EventName(opKind[o], "error")}

(***************************************************************************)
(* Vocabulary of the claims about requests and tool calls.                 *)
(***************************************************************************)
\* a required field of the arguments of tool call t is missing or empty
ToolFieldMissing(t) ==
    /\ toolArgs[t] # None
    /\ IF toolKind[t] = "scrape"
       THEN Get(toolArgs[t]).url = "" \/ Get(toolArgs[t]).selector = ""
       ELSE Get(toolArgs[t]).path = ""
\* a required field of the decoded body of streaming request o is missing
\* or empty
StreamFieldMissing(o) ==
    /\ opRequest[o] # None
    /\ Get(opRequest[o]).json
    /\ IF opKind[o] = "scrape"
       THEN Get(opRequest[o]).url = "" \/ Get(opRequest[o]).selector = ""
       ELSE Get(opRequest[o]).path = ""
ToolReturned(t) == toolPc[t] = "done"
ToolResult(t) == Get(Get(toolRet[t]).result)

\* C21: a request with a missing or empty required field is rejected with an
\* error outcome before any downstream call: a tool call returns an error
\* result without having called the scraper or the service, and a streaming
\* request is answered with an HTTP error, emits no event (no start event)
\* and starts no operation call.
C21_InvalidRequestRejectedFirst ==
    /\ \A t \in Tools :
          ToolFieldMissing(t) =>
              /\ toolCalls[t] = 0
              /\ ToolReturned(t)
              /\ Get(toolRet[t]).result # None
              /\ ToolResult(t).IsError
    /\ \A o \in Ops :
          StreamFieldMissing(o) =>
              /\ calls[o] = 0
              /\ emitted[o] = <<>>
              /\ gPc[o] = "none"
              /\ opError[o] # None
C21_Witness ==
    /\ \E t \in Tools :
          /\ toolKind[t] = "scrape"
          /\ ToolFieldMissing(t)
          /\ Get(toolArgs[t]).url # ""
          /\ ToolReturned(t)
    /\ \E o \in Ops :
          /\ opKind[o] = "document"
          /\ StreamFieldMissing(o)
          /\ hPc[o] = "returned"

\* C22: a tool handler that has returned has returned a nil error and a
\* non-nil result with content, and the result is flagged IsError exactly
\* when validation, the downstream call or marshalling failed.
C22_ToolHandlersReturnResults ==
    \A t \in Tools :
        ToolReturned(t) =>
            /\ toolRet[t] # None
            /\ Get(toolRet[t]).err = None
            /\ Get(toolRet[t]).result # None
            /\ ToolResult(t).Content # <<>>
            /\ ToolResult(t).IsError = (toolFailed[t] # "")
C22_Witness ==
    \E t \in Tools :
        /\ ToolReturned(t)
        /\ toolFailed[t] = "marshal"
        /\ toolCalls[t] = 1
        /\ ToolResult(t).IsError

(***************************************************************************)
(* Further claims about GetDocument.                                       *)
(***************************************************************************)
LookupErrors ==
    {"parent node not found", "sibling node not found",
     "content node not found", "child node not found"}
LastFetch == fetches[Len(fetches)]
\* the place of a scrape in the algorithm: ancestors, self, siblings, children
ScrapeRank(kind) ==
    CASE kind = "ancestor" -> 1 [] kind = "self" -> 2
      [] kind = "sibling" -> 3 [] kind = "child" -> 4
ScrapeFetches == SelectSeq(fetches, LAMBDA f : f.call = "Scrape")

\* C23: GetDocument fails with the first error: a downstream call that failed
\* is the last call GetDocument made, every call before it succeeded, the
\* error returned is the error of that call (or of the lookup that failed
\* after it), the calls are made in algorithm order starting with the content
\* resolution, and a failed content resolution is followed by no scrape.
C23_FailsWithFirstError ==
    /\ \A k \in 1..(Len(fetches) - 1) : fetches[k].err = ""
    /\ (fetches # <<>> /\ LastFetch.err # "") =>
          /\ pc = "done"
          /\ ret = [doc |-> None, err |-> LastFetch.err]
    /\ (pc = "done" /\ ret.err # "") =>
          /\ ret.doc = None
          /\ fetches # <<>>
          /\ ret.err = LastFetch.err \/ (LastFetch.err = "" /\ ret.err \in LookupErrors)
    /\ fetches # <<>> => fetches[1].call = "GetContent"
    /\ \A k \in 2..Len(fetches) : fetches[k].call # "GetContent"
    /\ (fetches # <<>> /\ fetches[1].err # "") => scrapes = <<>> /\ Len(fetches) = 1
    /\ Len(ScrapeFetches) = Len(scrapes)
    /\ \A a, b \in 1..Len(scrapes) :
          a < b => ScrapeRank(scrapes[a].kind) <= ScrapeRank(scrapes[b].kind)
\* a sibling scrape failed after at least three successful calls
C23_Witness ==
    /\ pc = "done" /\ failed = "sibling scrape"
    /\ Len(fetches) >= 4
    /\ LastFetch.err = "scrape failed"
    /\ ret.err = "scrape failed"

\* the identity fields of summary sm are those of content node id, and its
\* title is the one scraped from the node's page
IdentityFromNode(sm, id) ==
    /\ sm.ID = id
    /\ sm.MimeType = Item(id).MimeType
    /\ sm.URL = BaseURL \o NodeURI[id]
TitleAsScraped(sm, url) == sm.Title = ScrapeSummary(url).Title

\* C24: in a returned Document the content-type, id and URL of the own
\* summary, of every sibling entry and of every children entry are those of
\* the corresponding content node (URL = base URL + node URI), not the
\* scraped ones, and the title is the scraped one.
C24_IdentityFromContentNode ==
    Returned =>
        LET d == Get(ret.doc)
            lists == d.PrevSiblings \o d.NextSiblings \o d.Children
        IN /\ IdentityFromNode(d.DocumentSummary, Get(content).Item.ID)
           /\ TitleAsScraped(d.DocumentSummary, BaseURL \o RequestPath)
           /\ \A k \in 1..Len(lists) :
                 /\ lists[k].ID \in SiblingIDs \cup ChildIDs
                 /\ IdentityFromNode(lists[k], lists[k].ID)
                 /\ TitleAsScraped(lists[k], BaseURL \o NodeURI[lists[k].ID])
           /\ IDsOf(d.PrevSiblings \o d.NextSiblings) \in Seq(SiblingIDs)
           /\ IDsOf(d.Children) \in Seq(ChildIDs)
           /\ ScrapeSummary(BaseURL \o RequestPath).URL # d.DocumentSummary.URL
\* a returned Document with a sibling and a child
C24_Witness ==
    /\ Returned
    /\ Len(Get(ret.doc).NextSiblings) >= 1
    /\ Len(Get(ret.doc).Children) >= 1

HookRegistered == Get(content).MimeType \in ContentScraperTypes
\* C25: with a rendering hook registered for the node's content-type the body
\* of the returned Document is the hook's output and not the scraped body;
\* without one it is the scraped body; the summary is the same in both cases.
C25_HookOverridesBody ==
    Returned =>
        LET d == Get(ret.doc)
            scraped == ScrapeMarkdown(BaseURL \o RequestPath)
        IN /\ HookRegistered =>
                 d.Markdown = HookMarkdown(Get(content)) /\ d.Markdown # scraped
           /\ ~HookRegistered => d.Markdown = scraped
           /\ d.DocumentSummary =
                 loadItemData(ScrapeSummary(BaseURL \o RequestPath), Get(content).Item)
C25_Witness ==
    /\ Returned
    /\ HookRegistered
    /\ Get(ret.doc).Markdown = <<"hook">>

ChildScrapes == SelectSeq(scrapes, LAMBDA c : c.kind = "child")
\* C26: the children of a returned Document are the entries of the node's
\* child index, one summary per entry in index order, and the children were
\* scraped once each in that order.
C26_ChildrenFollowIndex ==
    Returned =>
        LET idx == Get(contentNode).Index
        IN /\ IDsOf(Get(ret.doc).Children) = idx
           /\ [k \in 1..Len(ChildScrapes) |-> ChildScrapes[k].uri] =
                 [k \in 1..Len(idx) |-> NodeURI[idx[k]]]
\* a returned Document with two children
C26_Witness ==
    /\ Returned
    /\ Len(Get(contentNode).Index) = 2
    /\ Len(Get(ret.doc).Children) = 2

FetchedAfterCancel == \E k \in 1..Len(fetches) : fetches[k].late
\* C27 (as claimed): once the caller has cancelled, no downstream call
\* succeeds and GetDocument ends with an error instead of a Document.
C27_CancelEndsInError ==
    /\ \A k \in 1..Len(fetches) : fetches[k].late => fetches[k].err # ""
    /\ (cancelled /\ pc = "done") => ret.doc = None /\ ret.err # ""
\* C27 (amended): once the caller has cancelled, no downstream call succeeds,
\* and a GetDocument that makes a downstream call after the cancellation ends
\* with an error instead of a Document; a call whose remaining steps are all
\* local still returns its Document.
C27_CancelStopsFetches ==
    /\ \A k \in 1..Len(fetches) : fetches[k].late => fetches[k].err # ""
    /\ FetchedAfterCancel => pc = "done" /\ ret.doc = None /\ ret.err # ""
    /\ (cancelled /\ Returned) => ~FetchedAfterCancel
\* the caller cancelled after three calls and the fourth failed
C27_Witness ==
    /\ cancelled
    /\ pc = "done"
    /\ Len(fetches) >= 4
    /\ LastFetch.late
    /\ ~fetches[Len(fetches) - 1].late
    /\ ret.doc = None

(***************************************************************************)
(* Claims about the event ids.                                             *)
(***************************************************************************)
\* the events built so far: who built them, and the position in its sequence
BuiltEvents == {<<m, k>> : m \in Emitters, k \in 1..(MaxTicks + 3)}
Built(x) == x[2] <= Len(eventIDs[x[1]])
IDOf(x) == eventIDs[x[1]][x[2]]

\* C28: no two events have the same id, whichever connection or operation
\* built them.
C28_EventIDsUnique ==
    \A x, y \in BuiltEvents :
        (Built(x) /\ Built(y) /\ x # y) => IDOf(x) # IDOf(y)

(***************************************************************************)
(* Claims about the selector search.                                       *)
(***************************************************************************)
\* the nodes of document d below and including n, in depth-first pre-order
RECURSIVE PreOrder(_, _)
PreOrder(d, n) ==
    LET RECURSIVE Below(_)
        Below(k) == IF k > Len(d.kids[n]) THEN <<>>
                    ELSE PreOrder(d, d.kids[n][k]) \o Below(k + 1)
    IN <<n>> \o Below(1)
AttrVals(lb, key) == {lb.Attr[k].Val : k \in {j \in 1..Len(lb.Attr) : lb.Attr[j].Key = key}}
IsSubstring(sub, s) ==
    \E a, b \in 0..Len(s) : a <= b /\ SubSeq(s, a + 1, b) = sub
\* element lb matches selector sel: '#x' by its id, '.x' by a class holding x,
\* anything else by its tag name
MatchesSelector(lb, sel) ==
    /\ lb.Type = ElementNode
    /\ IF sel # <<>> /\ sel[1] = "#" THEN Tail(sel) \in AttrVals(lb, "id")
       ELSE IF sel # <<>> /\ sel[1] = "." THEN
            \E v \in AttrVals(lb, "class") : IsSubstring(Tail(sel), v)
       ELSE lb.Data = sel

\* C29: extractNodeBySelector returns the first element of the document, in
\* depth-first pre-order, that matches the selector, with a nil error; when
\* no element matches it returns an error and no node.
C29_FirstMatchInPreOrder ==
    selected # None =>
        LET d == Get(htmlDoc)
            matches == SelectSeq(PreOrder(d, 0),
                                 LAMBDA n : MatchesSelector(d.node[n], selector))
            res == Get(selected)
        IN IF matches = <<>>
           THEN res.node = None /\ res.err # None
           ELSE res.node = Some(matches[1]) /\ res.err = None
\* a class selector that matches a grandchild of the first branch by a
\* proper substring, and a later element nearer to the root as well
C29_Witness ==
    /\ selected # None
    /\ selector = <<".", "b">>
    /\ LET d == Get(htmlDoc)
       IN /\ d.kids[0] = <<1, 3>>
          /\ ~MatchesSelector(d.node[1], selector)
          /\ d.node[2].Attr # <<>> /\ d.node[2].Attr[1].Val = <<"a", "b">>
          /\ MatchesSelector(d.node[3], selector)
          /\ Get(selected).node = Some(2)

(***************************************************************************)
(* Claims about the locks of the fan-out loop.                             *)
(***************************************************************************)
\* the fan-out loop is at a call of removeClient
LoopAtRemove == loopPc = "remove"

\* C30: the fan-out loop never calls removeClient while it holds the read
\* lock: whenever it is at a call of removeClient it has released the read
\* lock, so the call can take the write lock as soon as no addClient holds
\* it; the loop does not deadlock on its own lock.
C30_LoopRemovesWithoutReadLock ==
    LoopAtRemove =>
        /\ ~rlock
        /\ wlock = 0 => ENABLED LoopRemove
\* the loop found a disconnected client among two registered ones, released
\* the read lock and is about to remove it
C30_Witness ==
    /\ LoopAtRemove
    /\ ~rlock
    /\ Cardinality(clients) = 2
    /\ loopTarget \in clients
    /\ visited # {}

(***************************************************************************)
(* Claims about locks and writers of the client streams.                   *)
(***************************************************************************)
\* the fan-out loop is writing its event to a client: the event marshals and
\* Fprintf / Flush have not returned yet
LoopWriting == loopPc = "send" /\ ~sendEventToClientFails(Get(loopEvent).marshals)
LoopWritingTo(c) == LoopWriting /\ clientID[c] # 0 /\ loopTarget = clientID[c]
\* addClient is writing the connected event of connection c
ConnectWriting(c) == connPc[c] = "adding"
\* the keepalive task of connection c is writing a keepalive event
KeepaliveWriting(c) == kaPc[c] = "writing"

\* C31: no task holds the registry lock, for reading or for writing, while
\* it writes an event to a client: not the fan-out loop during the write of a
\* broadcast event, not addClient during the write of the connected event.
C31_NoLockAcrossWrite ==
    /\ LoopWriting => ~rlock
    /\ \A c \in Conns : ConnectWriting(c) => wlock # c

\* C32: at most one task is in the middle of a write to a given client's
\* stream: the fan-out loop and the connection's keepalive task never write
\* to the same client at the same time.
C32_OneWriterPerStream ==
    \A c \in Conns : ~(LoopWritingTo(c) /\ KeepaliveWriting(c))

\* C33: the handler of a streamed operation has not returned while an event
\* of the operation is still to be written: a handler that has returned
\* either rejected the request or has seen the operation's last event.
C33_HandlerOutlivesOperation ==
    \A o \in Ops : hPc[o] = "returned" => gPc[o] \in {"none", "done"}

(***************************************************************************)
(* Claims about the fan-out of one event.                                  *)
(***************************************************************************)
\* how often broadcast event n has been written to connection c
BroadcastCopies(n, c) ==
    Cardinality({k \in 1..Len(clientStream[c]) :
                    /\ clientStream[c][k].type = "broadcast"
                    /\ clientStream[c][k].id = n})
\* the registered clients the fan-out of the current event is through with
Served == {id \in clients : id \in visited /\ id # loopTarget}
\* the fan-out loop has produced every entry that was in the registry from
\* the start of the iteration and is about to leave the range
FanOutOver == loopPc = "range" /\ (clients \ visited) \subseteq fresh

IsBroadcast(ev) == ev.type = "broadcast"
BroadcastsOf(c) == SelectSeq(clientStream[c], IsBroadcast)
Ascending(seq) ==
    \A j, k \in 1..Len(seq) : j < k => seq[j].id < seq[k].id

NoPivot == parentNode # None /\ CurID \notin Range(Get(parentNode).Index)

\* C36: when the parent's child index does not hold the current node's id,
\* the sibling loop never leaves the "previous" side: nothing is ever put in
\* nextSiblings, the absence is no failure of its own (a call that ends
\* without a failed step returns a Document), and the returned Document's
\* prevSiblings are the index entries with a valid URI, all of them and in
\* index order.
C36_NoPivotAllPrevious ==
    NoPivot =>
        /\ isPrevious
        /\ doc # None => Get(doc).NextSiblings = <<>>
        /\ (pc = "done" /\ failed = "") => Returned
        /\ Returned =>
             /\ IDsOf(Get(ret.doc).PrevSiblings) = ValidIDsOf(Get(parentNode).Index)
             /\ Get(ret.doc).NextSiblings = <<>>
C36_Witness ==
    /\ Returned /\ NoPivot
    /\ Len(Get(ret.doc).PrevSiblings) >= 2
    /\ \E k \in 1..Len(Get(parentNode).Index) : ~ValidID(Get(parentNode).Index[k])

(***************************************************************************)
(* Claims about the registry and the done signals.                         *)
(***************************************************************************)
\* addClient has returned the client to HandleSSE, which started the
\* keepalive task: the connection is past Connecting
BecameActive(c) == connPc[c] \in {"waiting", "returned"} /\ kaPc[c] # "none"
\* no addClient or removeClient is inside its locked section
OutsideLock == wlock = 0

\* C37: whenever nobody holds the registry's write lock, the registry holds
\* exactly the clients of the connections that became Active and whose done
\* signal has not been raised; and every step that raises a done signal
\* deletes that client's registry entry in the same step, and the other way
\* round.
C37_RegistryIsActiveNotDone ==
    /\ [](OutsideLock =>
            /\ \A c \in Conns :
                 (clientID[c] \in clients) =
                     (BecameActive(c) /\ clientID[c] \notin done)
            /\ clients \subseteq {clientID[c] : c \in Conns})
    /\ [][/\ done' \ done = clients \ clients'
          /\ done \subseteq done']_vars
C37_Witness ==
    /\ OutsideLock
    /\ \E c, d \in Conns :
         /\ connPc[c] = "waiting" /\ clientID[c] \in clients
         /\ connPc[d] = "waiting" /\ clientID[d] \in done
         /\ clientID[d] \notin clients

(***************************************************************************)
(* Claims about the end of a connection's tasks.                           *)
(***************************************************************************)
DoneRaised(c) == clientID[c] # 0 /\ clientID[c] \in done
TasksOver(c) == kaPc[c] = "exited" /\ connPc[c] = "returned"

\* C38: once a client's done signal has been raised, the connection's
\* keepalive task eventually ends and HandleSSE eventually returns.
C38_TasksEndAfterDone ==
    \A c \in Conns : DoneRaised(c) ~> TasksOver(c)

(***************************************************************************)
(* Claims about the depth of the broadcast queue.                          *)
(***************************************************************************)
\* C39: the broadcast queue never holds more events than its capacity, the
\* capacity is the configured BufferSize and 100 when the server is
\* constructed without a configuration, and the bufferSize the statistics
\* report is the number of events in the queue.
C39_QueueDepthBounded ==
    /\ Len(broadcast) \in 0..BufferSize
    /\ GetStats.bufferSize = Len(broadcast)
    /\ ChannelCapacity(Some(BufferSize)) = BufferSize
    /\ ChannelCapacity(None) = 100
\* the queue is full, an event was dropped for it, and the statistics say so
C39_Witness ==
    /\ Len(broadcast) = BufferSize
    /\ GetStats.bufferSize = BufferSize
    /\ warnings # <<>>
    /\ loopEvent = None

(***************************************************************************)
(* Claims about the client ids.                                            *)
(***************************************************************************)
AssignedIDs == {clientID[c] : c \in Conns} \ {0}

\* C40: no two connections have the same client id, and the id a connection
\* is registered under is one no connection had before: not the id of a
\* registered client, whose entry it would overwrite, and not the id of a
\* removed one.
C40_ClientIDsUnique ==
    /\ [](\A c, d \in Conns :
            (c # d /\ clientID[c] # 0) => clientID[c] # clientID[d])
    /\ [][\A c \in Conns :
            clientID'[c] # clientID[c] =>
                /\ clientID'[c] \notin AssignedIDs
                /\ clientID'[c] \notin clients \cup done \cup noopRemoves
                /\ clients' = clients \cup {clientID'[c]}]_vars
\* a connection registers after another connection's client was removed
C40_Witness ==
    \E c, d \in Conns :
        /\ clientID[c] \in done
        /\ connPc[d] = "adding"
        /\ clientID[d] \in clients
====
